---- MODULE Spec2Model ----
(***************************************************************************)
(* queryfilter: a tagged struct is turned into a parameterized SQL          *)
(* predicate (fragment + ordered argument list).                            *)
(*                                                                          *)
(* Go strings are modelled as sequences of one-character strings, so that   *)
(* strings.Cut, strings.Join, strings.Index and the placeholder rewriting   *)
(* are computed character by character as the code does.                    *)
(***************************************************************************)
EXTENDS Integers, Sequences, FiniteSets, TLC

(***************************************************************************)
(* Bounds of the model.                                                     *)
(***************************************************************************)
\* largest number of fields of a record built from the core field pool
MaxFields == 2
\* largest slice length of a field value
MaxLen == 3
\* largest number of option functions handed to one ToSQL call
MaxOpts == 2
\* largest length of a string handed to replace directly
MaxQ == 4
\* largest count handed to PlaceholderList directly
MaxCount == 5
\* largest number of labels handed to summarize directly
MaxItems == 4

(***************************************************************************)
(* String helpers (package strings, fmt)                                    *)
(***************************************************************************)
RECURSIVE Concat(_)
\* concatenation of a sequence of strings
Concat(ss) == IF ss = <<>> THEN <<>> ELSE Head(ss) \o Concat(Tail(ss))

\* strings.Index(s, ch) for a one-character needle, 1-based; 0 when absent
Index(s, ch) ==
    IF \E i \in 1..Len(s) : s[i] = ch
    THEN CHOOSE i \in 1..Len(s) : s[i] = ch /\ \A j \in 1..(i - 1) : s[j] # ch
    ELSE 0

\* strings.Cut(s, sep) for a one-character separator
Cut(s, sep) ==
    LET i == Index(s, sep) IN
    IF i = 0
    THEN [before |-> s, after |-> <<>>, found |-> FALSE]
    ELSE [before |-> SubSeq(s, 1, i - 1), after |-> SubSeq(s, i + 1, Len(s)), found |-> TRUE]

\* the characters unicode.IsSpace accepts, as far as the tags of the model use them
IsSpace(ch) == ch \in {" ", "\t", "\n"}

RECURSIVE TrimLeft(_)
TrimLeft(s) == IF s # <<>> /\ IsSpace(Head(s)) THEN TrimLeft(Tail(s)) ELSE s

RECURSIVE TrimRight(_)
TrimRight(s) ==
    IF s # <<>> /\ IsSpace(s[Len(s)]) THEN TrimRight(SubSeq(s, 1, Len(s) - 1)) ELSE s

\* strings.TrimSpace
TrimSpace(s) == TrimRight(TrimLeft(s))

RECURSIVE Join(_, _)
\* strings.Join(elems, sep)
Join(elems, sep) ==
    IF elems = <<>> THEN <<>>
    ELSE IF Len(elems) = 1 THEN elems[1]
    ELSE elems[1] \o sep \o Join(Tail(elems), sep)

RECURSIVE Repeat(_, _)
\* strings.Repeat(s, count), count >= 0
Repeat(s, count) == IF count <= 0 THEN <<>> ELSE s \o Repeat(s, count - 1)

Digit(d) == <<"0", "1", "2", "3", "4", "5", "6", "7", "8", "9">>[d + 1]

RECURSIVE Digits(_)
Digits(n) == IF n < 10 THEN <<Digit(n)>> ELSE Digits(n \div 10) \o <<Digit(n % 10)>>

\* fmt's %d verb
Itoa(n) == IF n < 0 THEN <<"-">> \o Digits(0 - n) ELSE Digits(n)

\* number of occurrences of ch in s
Count(s, ch) == Cardinality({i \in 1..Len(s) : s[i] = ch})

(***************************************************************************)
(* Errors: the error built by fmt.Errorf(format, args...) is kept as its    *)
(* format and its arguments; the nil error is NoErr.                        *)
(***************************************************************************)
NoErr == [format |-> "<nil>", args |-> <<>>]

Errorf(format, args) == [format |-> format, args |-> args]

(***************************************************************************)
(* Go values as reflect sees them: a kind, the static type's name, and the  *)
(* payload (n: number, s: string, b: bool, elems: the elements of a slice   *)
(* or array, or the pointee of a pointer: empty for a nil pointer).         *)
(***************************************************************************)
GoVal(kind, type, n, s, b, elems) ==
    [kind |-> kind, type |-> type, n |-> n, s |-> s, b |-> b, elems |-> elems]

\* the zero reflect.Value (Kind() = Invalid, IsValid() = false)
Invalid == GoVal("invalid", <<>>, 0, <<>>, FALSE, <<>>)

\* reflect.Kind.String() for the kinds the model uses
KindName(kind) ==
    CASE kind = "int"       -> <<"i", "n", "t">>
      [] kind = "int8"      -> <<"i", "n", "t", "8">>
      [] kind = "int16"     -> <<"i", "n", "t", "1", "6">>
      [] kind = "uint"      -> <<"u", "i", "n", "t">>
      [] kind = "uint8"     -> <<"u", "i", "n", "t", "8">>
      [] kind = "float32"   -> <<"f", "l", "o", "a", "t", "3", "2">>
      [] kind = "float64"   -> <<"f", "l", "o", "a", "t", "6", "4">>
      [] kind = "string"    -> <<"s", "t", "r", "i", "n", "g">>
      [] kind = "bool"      -> <<"b", "o", "o", "l">>
      [] kind = "slice"     -> <<"s", "l", "i", "c", "e">>
      [] kind = "array"     -> <<"a", "r", "r", "a", "y">>
      [] kind = "struct"    -> <<"s", "t", "r", "u", "c", "t">>
      [] kind = "map"       -> <<"m", "a", "p">>
      [] kind = "ptr"       -> <<"p", "t", "r">>
      [] kind = "interface" -> <<"i", "n", "t", "e", "r", "f", "a", "c", "e">>
      [] OTHER              -> <<"i", "n", "v", "a", "l", "i", "d">>

SignedKinds == {"int", "int8", "int16", "int32", "int64"}
UnsignedKinds == {"uint", "uint8", "uint16", "uint32", "uint64"}
FloatKinds == {"float32", "float64"}

\* constructors of the field values the model draws from
IntV(kind, n) == GoVal(kind, KindName(kind), n, <<>>, FALSE, <<>>)
StringV(s) == GoVal("string", KindName("string"), 0, s, FALSE, <<>>)
BoolV(b) == GoVal("bool", KindName("bool"), 0, <<>>, b, <<>>)
TimeType == <<"t", "i", "m", "e", ".", "T", "i", "m", "e">>
TimeV(n) == GoVal("struct", TimeType, n, <<>>, FALSE, <<>>)
UserStructType == <<"m", "a", "i", "n", ".", "T">>
UserStructV == GoVal("struct", UserStructType, 0, <<>>, FALSE, <<>>)
MapType == <<"m", "a", "p", "[", "s", "t", "r", "i", "n", "g", "]", "i", "n", "t">>
MapV == GoVal("map", MapType, 0, <<>>, FALSE, <<>>)
SliceV(elemType, elems) == GoVal("slice", <<"[", "]">> \o elemType, 0, <<>>, FALSE, elems)
PtrTo(v) == GoVal("ptr", <<"*">> \o v.type, 0, <<>>, FALSE, <<v>>)
NilPtr(elemType) == GoVal("ptr", <<"*">> \o elemType, 0, <<>>, FALSE, <<>>)

\* reflect.Value.Elem() of a pointer: the pointee, or the zero Value for nil
Elem(v) == IF v.elems = <<>> THEN Invalid ELSE v.elems[1]

\* reflect.Value.String(): the string itself for a string, "<T Value>" otherwise
ValueString(v) ==
    IF v.kind = "string" THEN v.s
    ELSE <<"<">> \o v.type \o <<" ", "V", "a", "l", "u", "e", ">">>

(***************************************************************************)
(* The values of type any the extractor produces (Clause.Val and the        *)
(* arguments): t is the dynamic type, with the payload in n, s, b or strs.  *)
(***************************************************************************)
AnyVal(t, n, s, b, strs) == [t |-> t, n |-> n, s |-> s, b |-> b, strs |-> strs]

\* the nil interface value
Nil == AnyVal("nil", 0, <<>>, FALSE, <<>>)

\* readValue, were the kinds outside the supported set handed on as absent values
readValueLenient(v0) ==
    LET v == IF v0.kind = "ptr" THEN Elem(v0) ELSE v0 IN
    CASE v.kind \in SignedKinds ->
            [val |-> AnyVal("int64", v.n, <<>>, FALSE, <<>>), err |-> NoErr]
      [] v.kind \in UnsignedKinds ->
            [val |-> AnyVal("uint64", v.n, <<>>, FALSE, <<>>), err |-> NoErr]
      [] v.kind \in FloatKinds ->
            [val |-> AnyVal("float64", v.n, <<>>, FALSE, <<>>), err |-> NoErr]
      [] v.kind = "string" ->
            [val |-> AnyVal("string", 0, v.s, FALSE, <<>>), err |-> NoErr]
      [] v.kind = "bool" ->
            [val |-> AnyVal("bool", 0, <<>>, v.b, <<>>), err |-> NoErr]
      [] v.kind \in {"array", "slice"} ->
            [val |-> AnyVal("[]string", 0, <<>>, FALSE,
                            [i \in 1..Len(v.elems) |-> ValueString(v.elems[i])]),
             err |-> NoErr]
      [] v.kind = "struct" /\ v.type = TimeType ->
            [val |-> AnyVal("time.Time", v.n, <<>>, FALSE, <<>>), err |-> NoErr]
      [] OTHER -> [val |-> Nil, err |-> NoErr]

\* readValue: the pair (value, error) for a reflected value
readValue(v0) ==
    LET v == IF v0.kind = "ptr" THEN Elem(v0) ELSE v0 IN
    IF v.kind = "invalid" THEN [val |-> Nil, err |-> NoErr]
    ELSE CASE v.kind \in SignedKinds ->
                [val |-> AnyVal("int64", v.n, <<>>, FALSE, <<>>), err |-> NoErr]
           [] v.kind \in UnsignedKinds ->
                [val |-> AnyVal("uint64", v.n, <<>>, FALSE, <<>>), err |-> NoErr]
           [] v.kind \in FloatKinds ->
                [val |-> AnyVal("float64", v.n, <<>>, FALSE, <<>>), err |-> NoErr]
           [] v.kind = "string" ->
                [val |-> AnyVal("string", 0, v.s, FALSE, <<>>), err |-> NoErr]
           [] v.kind = "bool" ->
                [val |-> AnyVal("bool", 0, <<>>, v.b, <<>>), err |-> NoErr]
           [] v.kind \in {"array", "slice"} ->
                [val |-> AnyVal("[]string", 0, <<>>, FALSE,
                                [i \in 1..Len(v.elems) |-> ValueString(v.elems[i])]),
                 err |-> NoErr]
           [] v.kind = "struct" ->
                IF v.type = TimeType
                THEN [val |-> AnyVal("time.Time", v.n, <<>>, FALSE, <<>>), err |-> NoErr]
                ELSE [val |-> Nil,
                      err |-> Errorf("structs are not supported, only time.Time", <<>>)]
           [] OTHER ->
                [val |-> Nil, err |-> Errorf("unsupported type: %v", <<KindName(v.kind)>>)]

\* derefIfApplicable: one pointer level removed
derefIfApplicable(v) == IF v.kind = "ptr" THEN Elem(v) ELSE v

RECURSIVE readSliceElemsFrom(_, _, _)
\* the loop of readSliceElems from index i on, out holding the elements read so far
readSliceElemsFrom(v, i, out) ==
    IF i > Len(v.elems) THEN [out |-> out, err |-> NoErr]
    ELSE LET r == readValue(v.elems[i]) IN
         IF r.err # NoErr THEN [out |-> <<>>, err |-> r.err]
         ELSE readSliceElemsFrom(v, i + 1, Append(out, r.val))

\* readSliceElems: every element of a slice or array, extracted in order
readSliceElems(v) ==
    IF Len(v.elems) <= 0 THEN [out |-> <<>>, err |-> NoErr]
    ELSE readSliceElemsFrom(v, 1, <<>>)

(***************************************************************************)
(* Tags and clauses                                                         *)
(***************************************************************************)
\* parseTag: (column, operator, err) of a tag
parseTag(tag) ==
    LET c1 == Cut(tag, ",") IN
    IF ~c1.found
    THEN [column |-> c1.before, operator |-> <<"e", "q">>, err |-> NoErr]
    ELSE LET c2 == Cut(c1.after, "=") IN
         IF ~c2.found
         THEN [column |-> <<>>, operator |-> <<>>,
               err |-> Errorf("incorrectly formatted tag: %s", <<tag>>)]
         ELSE [column |-> c1.before, operator |-> TrimSpace(c2.after), err |-> NoErr]

\* the Clause struct
Clause(col, op, val, reflected) ==
    [Col |-> col, Op |-> op, Val |-> val, reflectedValue |-> reflected]

\* the zero Clause, left in the slots of the fields buildClauses skips
ZeroClause == Clause(<<>>, <<>>, Nil, Invalid)

RECURSIVE summarizeFromOxford(_, _, _)
\* the loop of summarize, were a comma written before the last label as well
summarizeFromOxford(items, i, b) ==
    IF i >= Len(items) THEN b
    ELSE LET b1 == IF i > 0 THEN b \o <<",", " ">> ELSE b
             b2 == IF i = Len(items) - 1 THEN b1 \o <<" ", "o", "r", " ">> ELSE b1
         IN  summarizeFromOxford(items, i + 1, b2 \o items[i + 1])

RECURSIVE summarizeFrom(_, _, _)
\* the loop of summarize from (0-based) index i on, b the text built so far
summarizeFrom(items, i, b) ==
    IF i >= Len(items) THEN b
    ELSE LET b1 == IF i > 0 /\ i < Len(items) - 1 THEN b \o <<",", " ">> ELSE b
             b2 == IF i = Len(items) - 1 THEN b1 \o <<" ", "o", "r", " ">> ELSE b1
         IN  summarizeFrom(items, i + 1, b2 \o items[i + 1])

\* summarize: "a, b or c"
summarize(items) ==
    IF Len(items) = 1 THEN items[1] ELSE summarizeFrom(items, 0, <<>>)

\* AssertTypeOneOf, were only the first of the kinds compared
AssertTypeFirstOnly(c, kinds) ==
    LET actualKind == c.reflectedValue.kind IN
    IF kinds # <<>> /\ kinds[1] = actualKind
    THEN NoErr
    ELSE Errorf("expected %s; got %s for operation %s",
                <<summarize([i \in 1..Len(kinds) |-> KindName(kinds[i])]),
                  KindName(actualKind), c.Op>>)

\* Clause.AssertTypeOneOf: NoErr when the reflected kind is one of kinds
AssertTypeOneOf(c, kinds) ==
    LET actualKind == c.reflectedValue.kind IN
    IF \E i \in 1..Len(kinds) : kinds[i] = actualKind
    THEN NoErr
    ELSE Errorf("expected %s; got %s for operation %s",
                <<summarize([i \in 1..Len(kinds) |-> KindName(kinds[i])]),
                  KindName(actualKind), c.Op>>)

(***************************************************************************)
(* Placeholders                                                             *)
(***************************************************************************)
\* PlaceholderList, were the placeholders joined by a comma and a space
PlaceholderListSpaced(n) ==
    [str |-> Join([i \in 1..n |-> <<"?">>], <<",", " ">>), panicked |-> FALSE]

\* PlaceholderList(n): strings.Repeat(",?", n)[1:] aborts for n = 0
PlaceholderList(n) ==
    IF n = 1 THEN [str |-> <<"?">>, panicked |-> FALSE]
    ELSE LET rep == Repeat(<<",", "?">>, n) IN
         IF Len(rep) < 1 THEN [str |-> <<>>, panicked |-> TRUE]
         ELSE [str |-> Tail(rep), panicked |-> FALSE]

\* the three replacer functions: defaultReplacer ignores the index
defaultReplacer == [numbered |-> FALSE, prefix |-> <<"?">>]
dollarReplacer == [numbered |-> TRUE, prefix |-> <<"$">>]
colonReplacer == [numbered |-> TRUE, prefix |-> <<":">>]

\* fn(i) for a replacer: makeReplacer's Sprintf("%s%d", prefix, i)
CallReplacer(fn, i) == IF fn.numbered THEN fn.prefix \o Itoa(i) ELSE fn.prefix

RECURSIVE replaceFromDropsRest(_, _, _, _, _)
\* the loop of replace, were the text after the last '?' not written
replaceFromDropsRest(q, readerOffset, b, n, fn) ==
    LET rest == SubSeq(q, readerOffset + 1, Len(q))
        idx == Index(rest, "?") - 1
    IN  IF idx < 0 THEN b
        ELSE replaceFromDropsRest(q, readerOffset + idx + 1,
                                  b \o SubSeq(rest, 1, idx) \o CallReplacer(fn, n), n + 1, fn)

RECURSIVE replaceFrom(_, _, _, _, _)
\* the loop of replace: readerOffset characters consumed, b built, n the next number
replaceFrom(q, readerOffset, b, n, fn) ==
    LET rest == SubSeq(q, readerOffset + 1, Len(q))
        idx == Index(rest, "?") - 1
    IN  IF idx < 0 THEN b \o rest
        ELSE replaceFrom(q, readerOffset + idx + 1,
                         b \o SubSeq(rest, 1, idx) \o CallReplacer(fn, n), n + 1, fn)

\* replace, were its numbering to start one after the offset
replaceOffByOne(q, placeholderNumberOffset, fn) ==
    replaceFrom(q, 0, <<>>, placeholderNumberOffset + 1, fn)

\* replace(q, placeholderNumberOffset, fn)
replace(q, placeholderNumberOffset, fn) == replaceFrom(q, 0, <<>>, placeholderNumberOffset, fn)

\* the PlaceholderStrategy constants (iota)
PlaceholderStrategyQuestionmark == 0
PlaceholderStrategyColon == 1
PlaceholderStrategyDollar == 2

\* the ChainingStrategy constants
ChainingStrategyOr == <<"O", "R">>
ChainingStrategyAnd == <<"A", "N", "D">>

\* applyPlaceholders, were the text handed back as it is for a strategy outside the
\* three constants
applyPlaceholdersKeepsText(q, opts) ==
    CASE opts.PlaceholderStrategy = PlaceholderStrategyQuestionmark ->
            replace(q, opts.PlaceholderOffset, defaultReplacer)
      [] opts.PlaceholderStrategy = PlaceholderStrategyColon ->
            replace(q, opts.PlaceholderOffset, colonReplacer)
      [] opts.PlaceholderStrategy = PlaceholderStrategyDollar ->
            replace(q, opts.PlaceholderOffset, dollarReplacer)
      [] OTHER -> q

\* applyPlaceholders: the empty string for a strategy outside the three constants
applyPlaceholders(q, opts) ==
    CASE opts.PlaceholderStrategy = PlaceholderStrategyQuestionmark ->
            replace(q, opts.PlaceholderOffset, defaultReplacer)
      [] opts.PlaceholderStrategy = PlaceholderStrategyColon ->
            replace(q, opts.PlaceholderOffset, colonReplacer)
      [] opts.PlaceholderStrategy = PlaceholderStrategyDollar ->
            replace(q, opts.PlaceholderOffset, dollarReplacer)
      [] OTHER -> <<>>

(***************************************************************************)
(* Operators: an Operator value is the function registered; fn names the    *)
(* function and r is the fragment a SimpleOperator was built with.          *)
(***************************************************************************)
OperatorFn(fn, r) == [fn |-> fn, r |-> r]

\* SimpleOperator, were every simple operator to render the equality fragment
SimpleOperatorEq(r) == OperatorFn("SimpleOperator", <<"=", " ", "?">>)

\* SimpleOperator(r)
SimpleOperator(r) == OperatorFn("SimpleOperator", r)

\* what a call of an operator gives: (sql, args, err), or an abort
OpResult(sql, args, err) == [sql |-> sql, args |-> args, err |-> err, panicked |-> FALSE]
OpPanic == [sql |-> <<>>, args |-> <<>>, err |-> NoErr, panicked |-> TRUE]

\* InOperator without the early return for the empty sequence
InOperatorNoEarlyReturn(c, keyword) ==
    LET e == AssertTypeOneOf(c, <<"slice", "array">>) IN
    IF e # NoErr THEN OpResult(<<>>, <<>>, e)
    ELSE LET placeholders == PlaceholderList(Len(c.reflectedValue.elems))
             r == readSliceElems(c.reflectedValue)
         IN  IF placeholders.panicked THEN OpPanic
             ELSE IF r.err # NoErr THEN OpResult(<<>>, <<>>, r.err)
             ELSE OpResult(keyword \o <<"(">> \o placeholders.str \o <<")">>, r.out, NoErr)

\* the built-in "in" and "not-in" operators, keyword being IN or NOT IN
InOperator(c, keyword) ==
    LET e == AssertTypeOneOf(c, <<"slice", "array">>) IN
    IF e # NoErr THEN OpResult(<<>>, <<>>, e)
    ELSE IF Len(c.reflectedValue.elems) = 0
         THEN OpResult(keyword \o <<"(", "N", "U", "L", "L", ")">>, <<>>, NoErr)
         ELSE LET placeholders == PlaceholderList(Len(c.reflectedValue.elems))
                  r == readSliceElems(c.reflectedValue)
              IN  IF placeholders.panicked THEN OpPanic
                  ELSE IF r.err # NoErr THEN OpResult(<<>>, <<>>, r.err)
                  ELSE OpResult(keyword \o <<"(">> \o placeholders.str \o <<")">>,
                                r.out, NoErr)

\* BetweenOperator without the check of the length: elems[:2] aborts on a
\* sequence of fewer than two elements
BetweenOperatorNoArity(c) ==
    LET e == AssertTypeOneOf(c, <<"slice", "array">>) IN
    IF e # NoErr THEN OpResult(<<>>, <<>>, e)
    ELSE LET r == readSliceElems(c.reflectedValue) IN
         IF r.err # NoErr THEN OpResult(<<>>, <<>>, r.err)
         ELSE IF Len(r.out) < 2 THEN OpPanic
         ELSE OpResult(<<"B", "E", "T", "W", "E", "E", "N", " ", "?", " ",
                         "A", "N", "D", " ", "?">>,
                       SubSeq(r.out, 1, 2), NoErr)

\* the built-in "between" operator
BetweenOperator(c) ==
    LET e == AssertTypeOneOf(c, <<"slice", "array">>) IN
    IF e # NoErr THEN OpResult(<<>>, <<>>, e)
    ELSE IF Len(c.reflectedValue.elems) < 2
         THEN OpResult(<<>>, <<>>,
                       Errorf("operation between expects two elements in its slice", <<>>))
         ELSE LET r == readSliceElems(c.reflectedValue) IN
              IF r.err # NoErr THEN OpResult(<<>>, <<>>, r.err)
              ELSE OpResult(<<"B", "E", "T", "W", "E", "E", "N", " ", "?", " ",
                              "A", "N", "D", " ", "?">>,
                            SubSeq(r.out, 1, 2), NoErr)

IsNullText == <<"I", "S", " ", "N", "U", "L", "L">>
IsNotNullText == <<"I", "S", " ", "N", "O", "T", " ", "N", "U", "L", "L">>

\* IsNullOperator with the two branches exchanged
IsNullOperatorInverted(c) ==
    IF c.reflectedValue.kind # "bool" THEN OpPanic
    ELSE IF c.reflectedValue.b THEN OpResult(IsNotNullText, <<>>, NoErr)
    ELSE OpResult(IsNullText, <<>>, NoErr)

\* the built-in "is-null" operator: reflect's Bool() aborts on a non-bool Value
IsNullOperator(c) ==
    IF c.reflectedValue.kind # "bool" THEN OpPanic
    ELSE IF c.reflectedValue.b THEN OpResult(IsNullText, <<>>, NoErr)
    ELSE OpResult(IsNotNullText, <<>>, NoErr)

\* the built-in "not-null" operator
NotNullOperator(c) ==
    IF c.reflectedValue.kind # "bool" THEN OpPanic
    ELSE IF c.reflectedValue.b THEN OpResult(IsNotNullText, <<>>, NoErr)
    ELSE OpResult(IsNullText, <<>>, NoErr)

\* a caller's operator that fails after having produced a fragment and an argument
FailingOperator(c) ==
    OpResult(<<"F", "A", "I", "L", " ", "?">>, <<c.Val>>, Errorf("custom operator failed", <<>>))

\* the call operator(c), were a SimpleOperator to write the value into its text in
\* place of the placeholder
CallOperatorInlinesValue(operator, c) ==
    CASE operator.fn = "SimpleOperator" ->
            OpResult(SubSeq(operator.r, 1, Len(operator.r) - 1)
                         \o (IF c.Val.t = "string" THEN <<"'">> \o c.Val.s \o <<"'">>
                             ELSE Itoa(c.Val.n)),
                     <<>>, NoErr)
      [] operator.fn = "in"       -> InOperator(c, <<"I", "N">>)
      [] operator.fn = "not-in"   -> InOperator(c, <<"N", "O", "T", " ", "I", "N">>)
      [] operator.fn = "between"  -> BetweenOperator(c)
      [] operator.fn = "is-null"  -> IsNullOperator(c)
      [] operator.fn = "not-null" -> NotNullOperator(c)
      [] OTHER                    -> FailingOperator(c)

\* the call operator(c) of an Operator value
CallOperator(operator, c) ==
    CASE operator.fn = "SimpleOperator" -> OpResult(operator.r, <<c.Val>>, NoErr)
      [] operator.fn = "in"       -> InOperator(c, <<"I", "N">>)
      [] operator.fn = "not-in"   -> InOperator(c, <<"N", "O", "T", " ", "I", "N">>)
      [] operator.fn = "between"  -> BetweenOperator(c)
      [] operator.fn = "is-null"  -> IsNullOperator(c)
      [] operator.fn = "not-null" -> NotNullOperator(c)
      [] OTHER                    -> FailingOperator(c)

\* the map after Operators[name] = op
MapPut(m, name, op) ==
    [k \in DOMAIN m \cup {name} |-> IF k = name THEN op ELSE m[k]]

\* the empty map Operators is declared with
EmptyOperators == [k \in {} |-> OperatorFn("", <<>>)]

\* the package initializer: the registry of the built-in operators
init ==
    LET m1 == MapPut(EmptyOperators, <<"e", "q">>, SimpleOperator(<<"=", " ", "?">>))
        m2 == MapPut(m1, <<"g", "t">>, SimpleOperator(<<">", " ", "?">>))
        m3 == MapPut(m2, <<"g", "t", "e">>, SimpleOperator(<<">", "=", " ", "?">>))
        m4 == MapPut(m3, <<"l", "t", "e">>, SimpleOperator(<<"<", "=", " ", "?">>))
        m5 == MapPut(m4, <<"l", "t">>, SimpleOperator(<<"<", " ", "?">>))
        m6 == MapPut(m5, <<"i", "n">>, OperatorFn("in", <<>>))
        m7 == MapPut(m6, <<"n", "o", "t", "-", "i", "n">>, OperatorFn("not-in", <<>>))
        m8 == MapPut(m7, <<"b", "e", "t", "w", "e", "e", "n">>, OperatorFn("between", <<>>))
        m9 == MapPut(m8, <<"i", "s", "-", "n", "u", "l", "l">>, OperatorFn("is-null", <<>>))
    IN  MapPut(m9, <<"n", "o", "t", "-", "n", "u", "l", "l">>, OperatorFn("not-null", <<>>))

(***************************************************************************)
(* State                                                                    *)
(***************************************************************************)
VARIABLES
    Operators,                              \* the process-wide operator registry
    DefaultChainingStrategy,                \* process-wide default connective
    DefaultPlaceholderStrategy,             \* process-wide default dialect
    DefaultPlaceholderStategyIndexOffset,   \* process-wide default start index
    f,                                      \* the value handed to the running/last ToSQL call
    fns,                                    \* its option functions
    ret,                                    \* what the call gave back to the caller
    call,                                   \* a direct call of one of the package's pure functions
    registered,                             \* history: the last operator registered under each name
    pos,                                    \* the clause the loop of a running toSQL is at; 0 if none runs
    writer,                                 \* the call of RegisterOperator under way in another thread
    overlapped,                             \* history: the clauses whose lookup overlapped a write
    started                                 \* history: the registry as it was when the call started

\* the variables of a call that runs beside a registration
concVars == <<pos, writer, overlapped, started>>

vars == <<Operators, DefaultChainingStrategy, DefaultPlaceholderStrategy,
          DefaultPlaceholderStategyIndexOffset, f, fns, ret, call, registered, concVars>>

\* a call of RegisterOperator(name, op) that has begun to write the map, or none
Writer(status, name, op) == [status |-> status, name |-> name, op |-> op]
NoWriter == Writer("idle", <<>>, OperatorFn("", <<>>))

(***************************************************************************)
(* Options                                                                  *)
(***************************************************************************)
\* DefaultOpts(): a fresh Opts from the process-wide defaults
DefaultOpts ==
    [ChainingStrategy    |-> DefaultChainingStrategy,
     PlaceholderStrategy |-> DefaultPlaceholderStrategy,
     PlaceholderOffset   |-> DefaultPlaceholderStategyIndexOffset]

\* the option functions: s is the connective, n the strategy or the offset
WithChainingStrategy(typ) == [opt |-> "WithChainingStrategy", s |-> typ, n |-> 0]
WithPlaceholderStrategy(strategy) == [opt |-> "WithPlaceholderStrategy", s |-> <<>>, n |-> strategy]
WithPlaceholderOffset(offset) == [opt |-> "WithPlaceholderOffset", s |-> <<>>, n |-> offset]

\* fn(opts) for an option function
CallOptFn(fn, o) ==
    CASE fn.opt = "WithChainingStrategy"    -> [o EXCEPT !.ChainingStrategy = fn.s]
      [] fn.opt = "WithPlaceholderStrategy" -> [o EXCEPT !.PlaceholderStrategy = fn.n]
      [] OTHER                              -> [o EXCEPT !.PlaceholderOffset = fn.n]

RECURSIVE ApplyOptFnsFirstWins(_, _)
\* the loop of ToSQL over fns, were the functions applied from the last to the first
ApplyOptFnsFirstWins(o, fs) ==
    IF fs = <<>> THEN o
    ELSE CallOptFn(Head(fs), ApplyOptFnsFirstWins(o, Tail(fs)))

RECURSIVE ApplyOptFns(_, _)
\* the loop of ToSQL over fns, in the order given
ApplyOptFns(o, fs) == IF fs = <<>> THEN o ELSE ApplyOptFns(CallOptFn(Head(fs), o), Tail(fs))

(***************************************************************************)
(* The value handed to ToSQL: kind is the kind of its type ("nil" for the   *)
(* untyped nil); a struct has fields in declaration order, each with the    *)
(* result of Tag.Lookup(TagName) (tagged, tag) and its value.               *)
(***************************************************************************)
Field(tagged, tag, value) == [tagged |-> tagged, tag |-> tag, value |-> value]

StructOf(fields) == [kind |-> "struct", fields |-> fields]

\* a value that is not a struct
NonStruct(kind) == [kind |-> kind, fields |-> <<>>]

RECURSIVE buildClausesFromLastError(_, _, _)
\* the loop of buildClauses, were it to go on after a failing field and to return
\* the error of the last failing field
buildClausesFromLastError(fields, idx, clauses) ==
    IF idx > Len(fields) THEN [clauses |-> clauses, err |-> NoErr]
    ELSE LET field == fields[idx]
             rest == buildClausesFromLastError(fields, idx + 1, clauses)
         IN  IF ~field.tagged THEN rest
             ELSE IF field.value.kind = "invalid" THEN rest
             ELSE LET t == parseTag(field.tag) IN
                  IF t.err # NoErr
                  THEN (IF rest.err # NoErr THEN rest ELSE [clauses |-> <<>>, err |-> t.err])
                  ELSE LET r == readValue(field.value) IN
                       IF r.err # NoErr
                       THEN (IF rest.err # NoErr THEN rest
                             ELSE [clauses |-> <<>>, err |-> r.err])
                       ELSE buildClausesFromLastError(fields, idx + 1,
                                [clauses EXCEPT ![idx] =
                                    Clause(t.column, t.operator, r.val,
                                           derefIfApplicable(field.value))])

RECURSIVE buildClausesFrom(_, _, _)
\* the loop of buildClauses from field idx on
buildClausesFrom(fields, idx, clauses) ==
    IF idx > Len(fields) THEN [clauses |-> clauses, err |-> NoErr]
    ELSE LET field == fields[idx] IN
         IF ~field.tagged THEN buildClausesFrom(fields, idx + 1, clauses)
         ELSE IF field.value.kind = "invalid" THEN buildClausesFrom(fields, idx + 1, clauses)
         ELSE LET t == parseTag(field.tag) IN
              IF t.err # NoErr THEN [clauses |-> <<>>, err |-> t.err]
              ELSE LET r == readValue(field.value) IN
                   IF r.err # NoErr THEN [clauses |-> <<>>, err |-> r.err]
                   ELSE buildClausesFrom(fields, idx + 1,
                            [clauses EXCEPT ![idx] = Clause(t.column, t.operator, r.val,
                                                            derefIfApplicable(field.value))])

\* buildClauses: reflect.TypeOf(nil).Kind() aborts on the nil Type
buildClauses(x) ==
    IF x.kind = "nil" THEN [clauses |-> <<>>, err |-> NoErr, panicked |-> TRUE]
    ELSE IF x.kind # "struct"
    THEN [clauses |-> <<>>, panicked |-> FALSE,
          err |-> Errorf("unable to build filter: provided value is not a struct", <<>>)]
    ELSE LET b == buildClausesFrom(x.fields, 1, [i \in 1..Len(x.fields) |-> ZeroClause])
         IN  [clauses |-> b.clauses, err |-> b.err, panicked |-> FALSE]

\* one entry of the log of toSQL's loop: the clause at position idx was rendered
Rendered(idx, seg, newArgs) == [idx |-> idx, seg |-> seg, newArgs |-> newArgs]

\* SkipClause, were the nil check missing
SkipNothing(c) == FALSE

\* "skip nil values": the clause holds no value
SkipClause(c) == c.Val = Nil

\* LookupOperator, were a missing name to fall back to equality
LookupOrEquality(name) ==
    IF name \in DOMAIN Operators
    THEN [operator |-> Operators[name], ok |-> TRUE]
    ELSE [operator |-> OperatorFn("SimpleOperator", <<"=", " ", "?">>), ok |-> TRUE]

\* operator, ok := Operators[name]
LookupOperator(name) ==
    IF name \in DOMAIN Operators
    THEN [operator |-> Operators[name], ok |-> TRUE]
    ELSE [operator |-> OperatorFn("", <<>>), ok |-> FALSE]

RECURSIVE toSQLFromKeepsSkipped(_, _, _, _, _, _)
\* the loop of toSQL, were a skipped clause to leave an empty segment behind
toSQLFromKeepsSkipped(clauses, i, segs, args, log, opts) ==
    IF i > Len(clauses)
    THEN [sql |-> Join(segs, <<" ">> \o opts.ChainingStrategy \o <<" ">>),
          args |-> args, err |-> NoErr, panicked |-> FALSE, log |-> log]
    ELSE LET c == clauses[i] IN
         IF SkipClause(c)
         THEN toSQLFromKeepsSkipped(clauses, i + 1, Append(segs, <<>>), args, log, opts)
         ELSE LET l == LookupOperator(c.Op) IN
              IF ~l.ok
              THEN [sql |-> <<>>, args |-> <<>>, panicked |-> FALSE, log |-> log,
                    err |-> Errorf("operator %s is not available", <<c.Op>>)]
              ELSE LET r == CallOperator(l.operator, c) IN
                   IF r.panicked
                   THEN [sql |-> <<>>, args |-> <<>>, err |-> NoErr, panicked |-> TRUE,
                         log |-> log]
                   ELSE IF r.err # NoErr
                   THEN [sql |-> <<>>, args |-> <<>>, err |-> r.err, panicked |-> FALSE,
                         log |-> log]
                   ELSE LET seg == c.Col \o <<" ">> \o r.sql IN
                        toSQLFromKeepsSkipped(clauses, i + 1, Append(segs, seg),
                                              args \o r.args,
                                              Append(log, Rendered(i, seg, r.args)), opts)

RECURSIVE toSQLFrom(_, _, _, _, _, _)
\* the loop of toSQL from clause i on; log lists the clauses rendered so far
toSQLFrom(clauses, i, segs, args, log, opts) ==
    IF i > Len(clauses)
    THEN [sql |-> Join(segs, <<" ">> \o opts.ChainingStrategy \o <<" ">>),
          args |-> args, err |-> NoErr, panicked |-> FALSE, log |-> log]
    ELSE LET c == clauses[i] IN
         IF SkipClause(c) THEN toSQLFrom(clauses, i + 1, segs, args, log, opts)
         ELSE LET l == LookupOperator(c.Op) IN
              IF ~l.ok
              THEN [sql |-> <<>>, args |-> <<>>, panicked |-> FALSE, log |-> log,
                    err |-> Errorf("operator %s is not available", <<c.Op>>)]
              ELSE LET r == CallOperator(l.operator, c) IN
                   IF r.panicked
                   THEN [sql |-> <<>>, args |-> <<>>, err |-> NoErr, panicked |-> TRUE,
                         log |-> log]
                   ELSE IF r.err # NoErr
                   THEN [sql |-> <<>>, args |-> <<>>, err |-> r.err, panicked |-> FALSE,
                         log |-> log]
                   ELSE LET seg == c.Col \o <<" ">> \o r.sql IN
                        toSQLFrom(clauses, i + 1, Append(segs, seg), args \o r.args,
                                  Append(log, Rendered(i, seg, r.args)), opts)

\* toSQL, were it to return what it had built so far together with the error
toSQLPartial(clauses, opts) ==
    LET r == toSQLFrom(clauses, 1, <<>>, <<>>, <<>>, opts) IN
    IF r.err = NoErr THEN r
    ELSE [r EXCEPT !.sql = Join([k \in 1..Len(r.log) |-> r.log[k].seg],
                                <<" ">> \o opts.ChainingStrategy \o <<" ">>),
                   !.args = Concat([k \in 1..Len(r.log) |-> r.log[k].newArgs])]

\* toSQL(clauses, opts)
toSQL(clauses, opts) == toSQLFrom(clauses, 1, <<>>, <<>>, <<>>, opts)

\* what the caller of ToSQL observes: status is "returned" or "panicked"; clauses
\* and log are the locals of the call (the clauses built, the clauses rendered)
Result(status, query, args, err, clauses, log) ==
    [status |-> status, query |-> query, args |-> args, err |-> err,
     clauses |-> clauses, log |-> log]

\* no call has been made, or the caller has dropped the last result
Idle == Result("idle", <<>>, <<>>, NoErr, <<>>, <<>>)

\* ToSQL(f, fns...)
ToSQL(x, optFns) ==
    LET opts == ApplyOptFns(DefaultOpts, optFns)
        b    == buildClauses(x)
    IN  IF b.panicked THEN Result("panicked", <<>>, <<>>, NoErr, <<>>, <<>>)
        ELSE IF b.err # NoErr THEN Result("returned", <<>>, <<>>, b.err, <<>>, <<>>)
        ELSE LET r == toSQL(b.clauses, opts) IN
             IF r.panicked THEN Result("panicked", <<>>, <<>>, NoErr, b.clauses, r.log)
             ELSE Result("returned", applyPlaceholders(r.sql, opts), r.args, r.err,
                         b.clauses, r.log)

(***************************************************************************)
(* The inputs the model draws from                                          *)
(***************************************************************************)
\* operator names used in tags
NameEq == <<"e", "q">>
NameGt == <<"g", "t">>
NameGte == <<"g", "t", "e">>
NameLt == <<"l", "t">>
NameLte == <<"l", "t", "e">>
NameIn == <<"i", "n">>
NameNotIn == <<"n", "o", "t", "-", "i", "n">>
NameBetween == <<"b", "e", "t", "w", "e", "e", "n">>
NameIsNull == <<"i", "s", "-", "n", "u", "l", "l">>
NameNotNull == <<"n", "o", "t", "-", "n", "u", "l", "l">>
\* a name the package does not register
NameMyOp == <<"m", "y", "-", "o", "p">>

\* the tag `<col>,op=<name>`
TagOf(col, name) == col \o <<",", "o", "p", "=">> \o name

\* a tag with a comma and no '='
MalformedTag == <<"e", ",", "b", "a", "d">>

\* a tag without operator, whose column holds a question mark
QuestionTag == <<"q", "?">>

\* a tag whose segment after the comma has a key other than op
OtherKeyTag == <<"a", ",", "x", "=", "g", "t">>

AllTags ==
    { <<"a">>, TagOf(<<"a">>, NameGt), TagOf(<<"a">>, NameGte), TagOf(<<"a">>, NameLt),
      TagOf(<<"a">>, NameLte), TagOf(<<"b">>, NameIn), TagOf(<<"b">>, NameNotIn),
      TagOf(<<"c">>, NameBetween), TagOf(<<"d">>, NameIsNull), TagOf(<<"d">>, NameNotNull),
      TagOf(<<"e">>, NameMyOp), MalformedTag, QuestionTag, OtherKeyTag,
      <<"a", ",", " ", "o", "p", " ", "=", " ", "g", "t", " ">> }

\* []int16{11, 12, ...} of length n, held directly (n = 0: the nil or empty slice)
Int16Slice(n) == SliceV(KindName("int16"), [i \in 1..n |-> IntV("int16", 10 + i)])

\* []string{"1", "2", ...} of length n
StringSlice(n) == SliceV(KindName("string"), [i \in 1..n |-> StringV(<<Digit(i)>>)])

\* []*T of length n with nil elements only
NilElemSlice(n) == SliceV(<<"*">> \o UserStructType, [i \in 1..n |-> NilPtr(UserStructType)])

\* []*T of length n: nil elements, then a pointer to a T as last element
LastSetSlice(n) ==
    SliceV(<<"*">> \o UserStructType,
           [i \in 1..n |-> IF i = n THEN PtrTo(UserStructV) ELSE NilPtr(UserStructType)])

\* [2]string{"1", "2"}
StringArray ==
    GoVal("array", <<"[", "2", "]">> \o KindName("string"), 0, <<>>, FALSE,
          <<StringV(<<"1">>), StringV(<<"2">>)>>)

ScalarValues ==
    { IntV("int", 0), PtrTo(IntV("int8", 7)), IntV("uint8", 3), PtrTo(IntV("float32", 2)),
      StringV(<<"x">>), PtrTo(TimeV(1)) }

BoolValues == { BoolV(TRUE), BoolV(FALSE), PtrTo(BoolV(TRUE)), PtrTo(BoolV(FALSE)) }

NilValues == { NilPtr(KindName("int8")), NilPtr(KindName("bool")), NilPtr(MapType) }

SliceValues ==
    { Int16Slice(n) : n \in 0..MaxLen } \cup { PtrTo(StringSlice(n)) : n \in 0..MaxLen }
    \cup { NilElemSlice(n) : n \in 1..MaxLen } \cup { LastSetSlice(n) : n \in 1..MaxLen }
    \cup { StringArray }

UnsupportedValues == { MapV, UserStructV, PtrTo(NilPtr(KindName("int"))) }

AllValues == ScalarValues \cup BoolValues \cup NilValues \cup SliceValues \cup UnsupportedValues

\* structs of one tagged field: every tag with every value
SingleRecords == { StructOf(<<Field(TRUE, t, v)>>) : t \in AllTags, v \in AllValues }

\* the fields structs of several fields are built from
CoreFields ==
    { Field(TRUE, <<"a">>, NilPtr(KindName("int8"))),
      Field(TRUE, TagOf(<<"a">>, NameGt), PtrTo(IntV("int8", 7))),
      Field(TRUE, TagOf(<<"b">>, NameIn), Int16Slice(2)),
      Field(TRUE, TagOf(<<"b">>, NameNotIn), Int16Slice(0)),
      Field(TRUE, TagOf(<<"c">>, NameBetween), PtrTo(StringSlice(1))),
      Field(TRUE, TagOf(<<"c">>, NameBetween), PtrTo(StringSlice(2))),
      Field(TRUE, TagOf(<<"d">>, NameIsNull), BoolV(TRUE)),
      Field(TRUE, TagOf(<<"d">>, NameIsNull), IntV("int", 0)),
      Field(TRUE, TagOf(<<"e">>, NameMyOp), StringV(<<"x">>)),
      Field(TRUE, TagOf(<<"e">>, NameMyOp), NilPtr(KindName("int8"))),
      Field(TRUE, MalformedTag, NilPtr(KindName("int8"))),
      Field(TRUE, <<"a">>, MapV),
      Field(TRUE, QuestionTag, IntV("int", 0)),
      Field(FALSE, <<>>, MapV) }

\* structs of up to MaxFields fields
MultiRecords ==
    UNION { { StructOf(fs) : fs \in [1..n -> CoreFields] } : n \in 0..MaxFields }

\* values that are not structs: a scalar, a pointer to a struct, a slice, a map, the
\* untyped nil
NonStructs ==
    { NonStruct("int"), NonStruct("ptr"), NonStruct("slice"), NonStruct("map"),
      NonStruct("nil") }

\* structs of three fields whose second field holds no value
MiddleAbsentRecords ==
    LET present == { Field(TRUE, TagOf(<<"a">>, NameGt), PtrTo(IntV("int8", 7))),
                     Field(TRUE, TagOf(<<"b">>, NameIn), Int16Slice(2)),
                     Field(TRUE, TagOf(<<"c">>, NameBetween), PtrTo(StringSlice(2))) }
    IN  { StructOf(<<a, Field(TRUE, <<"a">>, NilPtr(KindName("int8"))), b>>) :
            a \in present, b \in present }

Inputs == SingleRecords \cup MultiRecords \cup MiddleAbsentRecords \cup NonStructs

\* the option functions a call draws from
OptFns ==
    { WithChainingStrategy(ChainingStrategyOr),
      WithPlaceholderStrategy(PlaceholderStrategyColon),
      WithPlaceholderStrategy(PlaceholderStrategyDollar),
      WithPlaceholderOffset(9) }

OptLists == UNION { [1..n -> OptFns] : n \in 0..MaxOpts }

\* the names and operators RegisterOperator is called with
RegNames == { NameEq, NameMyOp }
RegOps == { OperatorFn("failing", <<>>), SimpleOperator(<<"L", "I", "K", "E", " ", "?">>) }

\* a direct call of a pure function: its name, its arguments (q and n for replace
\* and PlaceholderList, with the replacer in fn; items for summarize) and what it
\* gave (out), or that it aborted
PureCall(name, q, n, fn, items, out, panicked) ==
    [name |-> name, q |-> q, n |-> n, fn |-> fn, items |-> items, out |-> out,
     panicked |-> panicked]

\* no direct call has been made
NoCall == PureCall("none", <<>>, 0, defaultReplacer, <<>>, <<>>, FALSE)

(***************************************************************************)
(* Actions                                                                  *)
(***************************************************************************)
Init ==
    /\ Operators = init
    /\ DefaultChainingStrategy = ChainingStrategyAnd
    /\ DefaultPlaceholderStrategy = PlaceholderStrategyQuestionmark
    /\ DefaultPlaceholderStategyIndexOffset = 1
    /\ f = StructOf(<<>>)
    /\ fns = <<>>
    /\ ret = Idle
    /\ call = NoCall
    /\ registered = EmptyOperators
    /\ pos = 0
    /\ writer = NoWriter
    /\ overlapped = {}
    /\ started = init

\* RegisterOperator, were a name that is already registered left as it is
RegisterOperatorKeepsFirst(name, op) ==
    /\ ret.status = "idle"
    /\ Operators' = IF name \in DOMAIN Operators THEN Operators
                    ELSE MapPut(Operators, name, op)
    /\ registered' = MapPut(registered, name, op)
    /\ UNCHANGED <<concVars, DefaultChainingStrategy, DefaultPlaceholderStrategy,
                   DefaultPlaceholderStategyIndexOffset, f, fns, ret, call>>

\* RegisterOperator(name, op): Operators[name] = op
RegisterOperator(name, op) ==
    /\ ret.status = "idle"
    /\ Operators' = MapPut(Operators, name, op)
    /\ registered' = MapPut(registered, name, op)
    /\ UNCHANGED <<concVars, DefaultChainingStrategy, DefaultPlaceholderStrategy,
                   DefaultPlaceholderStategyIndexOffset, f, fns, ret, call>>

\* the caller calls ToSQL(x, optFns...) and holds what it gives back
CallToSQL(x, optFns) ==
    /\ ret.status = "idle"
    /\ f' = x
    /\ fns' = optFns
    /\ ret' = ToSQL(x, optFns)
    /\ UNCHANGED <<concVars, Operators, DefaultChainingStrategy, DefaultPlaceholderStrategy,
                   DefaultPlaceholderStategyIndexOffset, call, registered>>

\* the caller is done with the result of a call that returned; an aborted call
\* ends the caller
CallerContinues ==
    /\ ret.status = "returned"
    /\ f' = StructOf(<<>>)
    /\ fns' = <<>>
    /\ ret' = Idle
    /\ UNCHANGED <<concVars, Operators, DefaultChainingStrategy, DefaultPlaceholderStrategy,
                   DefaultPlaceholderStategyIndexOffset, call, registered>>

Next ==
    \/ /\ ret.status = "idle"
       /\ \E name \in RegNames, op \in RegOps : RegisterOperator(name, op)
    \/ /\ ret.status = "idle"
       /\ \E x \in Inputs, optFns \in OptLists : CallToSQL(x, optFns)
    \/ CallerContinues

Spec == Init /\ [][Next]_vars

(***************************************************************************)
(* Calls of ToSQL one after the other, between assignments to the           *)
(* process-wide defaults                                                    *)
(***************************************************************************)
\* a strategy value outside the three constants (PlaceholderStrategy is an int type)
UndefinedStrategy == 3

\* the option functions these calls draw from
SeqOptFns ==
    { WithChainingStrategy(ChainingStrategyOr),
      WithPlaceholderStrategy(PlaceholderStrategyColon),
      WithPlaceholderStrategy(UndefinedStrategy),
      WithPlaceholderOffset(9) }

SeqOptLists == UNION { [1..n -> SeqOptFns] : n \in 0..MaxOpts }

\* the records these calls draw from
SeqInputs ==
    { StructOf(<<Field(TRUE, TagOf(<<"a">>, NameGt), PtrTo(IntV("int8", 7))),
                 Field(TRUE, TagOf(<<"b">>, NameIn), Int16Slice(2))>>),
      StructOf(<<Field(TRUE, TagOf(<<"d">>, NameIsNull), BoolV(TRUE)),
                 Field(TRUE, <<"a">>, NilPtr(KindName("int8"))),
                 Field(TRUE, TagOf(<<"c">>, NameBetween), PtrTo(StringSlice(2)))>>) }

\* DefaultChainingStrategy = typ, assigned by the program between calls
SetDefaultChainingStrategy(typ) ==
    /\ ret.status # "panicked"
    /\ DefaultChainingStrategy' = typ
    /\ UNCHANGED <<concVars, Operators, DefaultPlaceholderStrategy,
                   DefaultPlaceholderStategyIndexOffset, f, fns, ret, call, registered>>

\* DefaultPlaceholderStrategy = strategy
SetDefaultPlaceholderStrategy(strategy) ==
    /\ ret.status # "panicked"
    /\ DefaultPlaceholderStrategy' = strategy
    /\ UNCHANGED <<concVars, Operators, DefaultChainingStrategy,
                   DefaultPlaceholderStategyIndexOffset, f, fns, ret, call, registered>>

\* DefaultPlaceholderStategyIndexOffset = offset
SetDefaultPlaceholderStategyIndexOffset(offset) ==
    /\ ret.status # "panicked"
    /\ DefaultPlaceholderStategyIndexOffset' = offset
    /\ UNCHANGED <<concVars, Operators, DefaultChainingStrategy, DefaultPlaceholderStrategy,
                   f, fns, ret, call, registered>>

\* ToSQL(x, optFns...) called when an earlier call has returned (or none was made)
CallToSQLNext(x, optFns) ==
    /\ ret.status # "panicked"
    /\ f' = x
    /\ fns' = optFns
    /\ ret' = ToSQL(x, optFns)
    /\ UNCHANGED <<concVars, Operators, DefaultChainingStrategy, DefaultPlaceholderStrategy,
                   DefaultPlaceholderStategyIndexOffset, call, registered>>

SeqNext ==
    \/ \E typ \in {ChainingStrategyAnd, ChainingStrategyOr} : SetDefaultChainingStrategy(typ)
    \/ \E strategy \in {PlaceholderStrategyQuestionmark, PlaceholderStrategyDollar} :
          SetDefaultPlaceholderStrategy(strategy)
    \/ \E offset \in {1, 9} : SetDefaultPlaceholderStategyIndexOffset(offset)
    \/ \E x \in SeqInputs, optFns \in SeqOptLists : CallToSQLNext(x, optFns)

SeqSpec == Init /\ [][SeqNext]_vars

(***************************************************************************)
(* A ToSQL call in one thread, clause by clause, and calls of               *)
(* RegisterOperator in another thread. Neither takes a lock: the write of   *)
(* the map has a beginning and an end, and a lookup that falls between      *)
(* them is a data race, which sees the map before the write or after it,    *)
(* or has the runtime stop the process.                                     *)
(***************************************************************************)
\* the records and option lists the concurrent call draws from
ConcInputs ==
    { StructOf(<<Field(TRUE, <<"a">>, PtrTo(IntV("int8", 7))),
                 Field(TRUE, TagOf(<<"b">>, NameEq), StringV(<<"x">>)),
                 Field(TRUE, TagOf(<<"c">>, NameEq), IntV("int", 0))>>),
      StructOf(<<Field(TRUE, <<"a">>, PtrTo(IntV("int8", 7))),
                 Field(TRUE, <<"a">>, NilPtr(KindName("int8"))),
                 Field(TRUE, TagOf(<<"e">>, NameMyOp), IntV("int", 0))>>),
      StructOf(<<Field(TRUE, TagOf(<<"b">>, NameIn), Int16Slice(2)),
                 Field(TRUE, MalformedTag, IntV("int", 0))>>) }

ConcOptLists == { <<>>, <<WithPlaceholderStrategy(PlaceholderStrategyDollar)>> }

\* operator, ok := Operators[name], for the map the read sees
LookupIn(registry, name) ==
    IF name \in DOMAIN registry
    THEN [operator |-> registry[name], ok |-> TRUE]
    ELSE [operator |-> OperatorFn("", <<>>), ok |-> FALSE]

\* one iteration of the loop of toSQL, on the clause at pos, for the map its lookup
\* sees: the result so far and the position afterwards
Iteration(registry) ==
    LET c == ret.clauses[pos] IN
    IF SkipClause(c) THEN [ret |-> ret, pos |-> pos + 1]
    ELSE LET l == LookupIn(registry, c.Op) IN
         IF ~l.ok
         THEN [ret |-> Result("returned", <<>>, <<>>,
                              Errorf("operator %s is not available", <<c.Op>>),
                              ret.clauses, ret.log),
               pos |-> 0]
         ELSE LET r == CallOperator(l.operator, c) IN
              IF r.panicked
              THEN [ret |-> Result("panicked", <<>>, <<>>, NoErr, ret.clauses, ret.log),
                    pos |-> 0]
              ELSE IF r.err # NoErr
              THEN [ret |-> Result("returned", <<>>, <<>>, r.err, ret.clauses, ret.log),
                    pos |-> 0]
              ELSE LET seg == c.Col \o <<" ">> \o r.sql IN
                   [ret |-> Result("running", <<>>, ret.args \o r.args, NoErr, ret.clauses,
                                   Append(ret.log, Rendered(pos, seg, r.args))),
                    pos |-> pos + 1]

\* ToSQL(x, optFns...) up to the loop of toSQL: the options are applied and the
\* clauses built, which reads no operator
StartToSQL(x, optFns) ==
    /\ ret.status = "idle"
    /\ f' = x
    /\ fns' = optFns
    /\ LET b == buildClauses(x) IN
       IF b.panicked
       THEN ret' = Result("panicked", <<>>, <<>>, NoErr, <<>>, <<>>) /\ pos' = 0
       ELSE IF b.err # NoErr
       THEN ret' = Result("returned", <<>>, <<>>, b.err, <<>>, <<>>) /\ pos' = 0
       ELSE ret' = Result("running", <<>>, <<>>, NoErr, b.clauses, <<>>) /\ pos' = 1
    /\ started' = Operators
    /\ overlapped' = {}
    /\ UNCHANGED <<Operators, DefaultChainingStrategy, DefaultPlaceholderStrategy,
                   DefaultPlaceholderStategyIndexOffset, call, registered, writer>>

\* one iteration of the loop of toSQL, reading the given map; a lookup while a write
\* of the map is under way sees the map before or after the write, or the runtime
\* stops the process
RenderClauseIn(registry) ==
    /\ ret.status = "running"
    /\ pos \in 1..Len(ret.clauses)
    /\ IF ~SkipClause(ret.clauses[pos]) /\ writer.status = "writing"
       THEN /\ overlapped' = overlapped \cup {pos}
            /\ \E outcome \in {"before", "after", "stopped"} :
                 IF outcome = "stopped"
                 THEN /\ ret' = Result("panicked", <<>>, <<>>, NoErr, ret.clauses, ret.log)
                      /\ pos' = 0
                 ELSE LET seen == IF outcome = "before" THEN registry
                                  ELSE MapPut(registry, writer.name, writer.op)
                          it == Iteration(seen)
                      IN  ret' = it.ret /\ pos' = it.pos
       ELSE /\ overlapped' = overlapped
            /\ LET it == Iteration(registry) IN ret' = it.ret /\ pos' = it.pos
    /\ UNCHANGED <<Operators, DefaultChainingStrategy, DefaultPlaceholderStrategy,
                   DefaultPlaceholderStategyIndexOffset, f, fns, call, registered, writer,
                   started>>

\* the iteration, were the call to read the registry as it was when it started
RenderClauseFromSnapshot == RenderClauseIn(started)

\* the iteration of the loop of toSQL: it reads the package variable Operators
RenderClause == RenderClauseIn(Operators)

\* the end of toSQL and of ToSQL: the segments are joined and the placeholders applied
FinishToSQL ==
    /\ ret.status = "running"
    /\ pos > Len(ret.clauses)
    /\ LET opts == ApplyOptFns(DefaultOpts, fns)
           segs == [k \in 1..Len(ret.log) |-> ret.log[k].seg]
           sql  == Join(segs, <<" ">> \o opts.ChainingStrategy \o <<" ">>)
       IN  ret' = Result("returned", applyPlaceholders(sql, opts), ret.args, NoErr,
                         ret.clauses, ret.log)
    /\ pos' = 0
    /\ UNCHANGED <<Operators, DefaultChainingStrategy, DefaultPlaceholderStrategy,
                   DefaultPlaceholderStategyIndexOffset, f, fns, call, registered, writer,
                   overlapped, started>>

\* RegisterOperator(name, op) in the other thread begins to write the map
BeginRegisterOperator(name, op) ==
    /\ ret.status # "panicked"
    /\ writer.status = "idle"
    /\ writer' = Writer("writing", name, op)
    /\ UNCHANGED <<Operators, DefaultChainingStrategy, DefaultPlaceholderStrategy,
                   DefaultPlaceholderStategyIndexOffset, f, fns, ret, call, registered, pos,
                   overlapped, started>>

\* the write of the map is done: Operators[name] = op
EndRegisterOperator ==
    /\ ret.status # "panicked"
    /\ writer.status = "writing"
    /\ Operators' = MapPut(Operators, writer.name, writer.op)
    /\ registered' = MapPut(registered, writer.name, writer.op)
    /\ writer' = NoWriter
    /\ UNCHANGED <<DefaultChainingStrategy, DefaultPlaceholderStrategy,
                   DefaultPlaceholderStategyIndexOffset, f, fns, ret, call, pos, overlapped,
                   started>>

ConcNext ==
    \/ \E x \in ConcInputs, optFns \in ConcOptLists : StartToSQL(x, optFns)
    \/ RenderClause
    \/ FinishToSQL
    \/ CallerContinues
    \/ \E name \in RegNames, op \in RegOps : BeginRegisterOperator(name, op)
    \/ EndRegisterOperator

ConcSpec == Init /\ [][ConcNext]_vars

(***************************************************************************)
(* Direct calls of the pure functions of the package                        *)
(***************************************************************************)
\* the strings replace is called with: a letter, a digit and the question mark
ReplaceInputs == UNION { [1..k -> {"a", "1", "?"}] : k \in 0..MaxQ }

\* the start indexes replace is called with
ReplaceOffsets == { -1, 0, 1, 9 }

\* the three replacer functions
Replacers == { defaultReplacer, dollarReplacer, colonReplacer }

\* the labels summarize is called with, and the lists of them
Labels == { <<"a">>, <<"b", "c">>, <<"o", "r">> }
LabelLists == UNION { [1..k -> Labels] : k \in 0..MaxItems }

\* replace(q, n, fn), called directly
CallReplace(q, n, fn) ==
    /\ call.name = "none"
    /\ call' = PureCall("replace", q, n, fn, <<>>, replace(q, n, fn), FALSE)
    /\ UNCHANGED <<concVars, Operators, DefaultChainingStrategy, DefaultPlaceholderStrategy,
                   DefaultPlaceholderStategyIndexOffset, f, fns, ret, registered>>

\* PlaceholderList(n), called directly
CallPlaceholderList(n) ==
    /\ call.name = "none"
    /\ call' = LET r == PlaceholderList(n) IN
               PureCall("PlaceholderList", <<>>, n, defaultReplacer, <<>>, r.str, r.panicked)
    /\ UNCHANGED <<concVars, Operators, DefaultChainingStrategy, DefaultPlaceholderStrategy,
                   DefaultPlaceholderStategyIndexOffset, f, fns, ret, registered>>

\* summarize(items...), called directly
CallSummarize(items) ==
    /\ call.name = "none"
    /\ call' = PureCall("summarize", <<>>, 0, defaultReplacer, items, summarize(items), FALSE)
    /\ UNCHANGED <<concVars, Operators, DefaultChainingStrategy, DefaultPlaceholderStrategy,
                   DefaultPlaceholderStategyIndexOffset, f, fns, ret, registered>>

\* the caller goes on after a call that returned; an aborted call ends the caller
PureReturns ==
    /\ call.name # "none"
    /\ ~call.panicked
    /\ call' = NoCall
    /\ UNCHANGED <<concVars, Operators, DefaultChainingStrategy, DefaultPlaceholderStrategy,
                   DefaultPlaceholderStategyIndexOffset, f, fns, ret, registered>>

PureNext ==
    \/ \E q \in ReplaceInputs, n \in ReplaceOffsets, fn \in Replacers : CallReplace(q, n, fn)
    \/ \E n \in 0..MaxCount : CallPlaceholderList(n)
    \/ \E items \in LabelLists : CallSummarize(items)
    \/ PureReturns

PureSpec == Init /\ [][PureNext]_vars

(***************************************************************************)
(* Properties                                                               *)
(***************************************************************************)
\* the call returned (it did not abort)
Returned == ret.status = "returned"

\* the call returned a nil error
Succeeded == Returned /\ ret.err = NoErr

\* the call returned a non-nil error
Failed == Returned /\ ret.err # NoErr

\* a call on a struct was made
CalledOnStruct == ret.status # "idle" /\ f.kind = "struct"

\* buildClauses gave one clause per field
Built == CalledOnStruct /\ (f.fields # <<>> => Len(ret.clauses) = Len(f.fields))

\* the positions of the clauses toSQL rendered
LogIdx == { ret.log[k].idx : k \in 1..Len(ret.log) }

\* the log entry of the rendered clause i
LogOf(i) == ret.log[CHOOSE k \in 1..Len(ret.log) : ret.log[k].idx = i]

\* toSQL's loop got to clause i: every earlier clause with a value was rendered
Reached(i) ==
    /\ Built
    /\ i \in 1..Len(f.fields)
    /\ \A j \in 1..(i - 1) : ret.clauses[j].Val # Nil => j \in LogIdx

\* the field is tagged and holds a nil pointer
IsAbsent(field) == field.tagged /\ field.value.kind = "ptr" /\ field.value.elems = <<>>

\* the operator name a tagged field's tag gives
OpOf(field) == parseTag(field.tag).operator

\* the field is tagged, its tag parses, and its operator is still the built-in one
UsesBuiltin(field, names) ==
    /\ field.tagged
    /\ parseTag(field.tag).err = NoErr
    /\ OpOf(field) \in names
    /\ OpOf(field) \in DOMAIN Operators
    /\ Operators[OpOf(field)] = init[OpOf(field)]

(***************************************************************************)
(* C1                                                                       *)
(***************************************************************************)
\* C1: whenever ToSQL returns a non-nil error, the fragment is the empty string and
\* the argument list is empty, whatever was rendered before the failing clause.
C1_NoPartialOutput == Failed => (ret.query = <<>> /\ ret.args = <<>>)

\* a call failed after at least one clause had been rendered
C1_Witness == Failed /\ Len(ret.log) >= 1

(***************************************************************************)
(* C2                                                                       *)
(***************************************************************************)
\* the fields of a struct without the tagged nil-pointer fields
WithoutAbsent(fields) == SelectSeq(fields, LAMBDA field : ~IsAbsent(field))

\* C2 as stated: for every record, fragment and arguments equal those of the same
\* record with the absent-valued fields removed, and a record none of whose tagged
\* fields carries a value gives the empty fragment, no arguments and a nil error.
C2_AsStated ==
    (Returned /\ f.kind = "struct") =>
        LET g == ToSQL(StructOf(WithoutAbsent(f.fields)), fns) IN
        /\ g.query = ret.query
        /\ g.args = ret.args
        /\ (\A i \in 1..Len(f.fields) : f.fields[i].tagged => IsAbsent(f.fields[i]))
              => (ret.query = <<>> /\ ret.args = <<>> /\ ret.err = NoErr)

\* the tag of every absent-valued field parses
AbsentTagsParse ==
    \A i \in 1..Len(f.fields) :
        IsAbsent(f.fields[i]) => parseTag(f.fields[i].tag).err = NoErr

\* C2 amended: for every record whose absent-valued fields have well-formed tags, the
\* call gives the same outcome (fragment, arguments, error) as on the record with
\* those fields removed; if no tagged field carries a value, that is the empty
\* fragment, no arguments and a nil error.
C2_AbsentSkipped ==
    (CalledOnStruct /\ AbsentTagsParse) =>
        LET g == ToSQL(StructOf(WithoutAbsent(f.fields)), fns) IN
        /\ g.status = ret.status
        /\ g.query = ret.query
        /\ g.args = ret.args
        /\ g.err = ret.err
        /\ (\A i \in 1..Len(f.fields) : f.fields[i].tagged => IsAbsent(f.fields[i]))
              => (Returned /\ ret.query = <<>> /\ ret.args = <<>> /\ ret.err = NoErr)

\* a call succeeded on a record with an absent field next to a rendered one
C2_Witness ==
    /\ Succeeded
    /\ f.kind = "struct"
    /\ AbsentTagsParse
    /\ \E i \in 1..Len(f.fields) : IsAbsent(f.fields[i])
    /\ Len(ret.log) >= 1

(***************************************************************************)
(* C3                                                                       *)
(***************************************************************************)
\* field i names an operator that is not a key of the registry
UnknownAt(i) ==
    /\ f.fields[i].tagged
    /\ parseTag(f.fields[i].tag).err = NoErr
    /\ OpOf(f.fields[i]) \notin DOMAIN Operators

\* the error toSQL gives for a name that is not registered
NotAvailable(name) == Errorf("operator %s is not available", <<name>>)

\* C3 as stated: whenever a tagged field names an operator that is not a key of the
\* registry, ToSQL returns an error naming that operator and no fragment, also when
\* the field's value is absent (stated for the first such field the renderer gets
\* to, so that no other field's failure comes first).
C3_AsStated ==
    CalledOnStruct =>
        \A i \in 1..Len(f.fields) :
            (UnknownAt(i) /\ Reached(i)) =>
                /\ Returned
                /\ ret.query = <<>>
                /\ ret.err = NotAvailable(OpOf(f.fields[i]))

\* C3 amended: whenever a tagged field holding a value (not a nil pointer) names an
\* operator that is not a key of the registry, ToSQL does not succeed and returns no
\* fragment, and when the renderer gets to that field (no earlier field failed) it
\* returns the error naming that operator; a field whose value is absent is skipped
\* before the lookup, so a record whose only unknown operators sit on absent fields
\* gets no such error.
C3_UnknownOperator ==
    CalledOnStruct =>
        /\ \A i \in 1..Len(f.fields) :
              (UnknownAt(i) /\ ~IsAbsent(f.fields[i])) =>
                  /\ ~Succeeded
                  /\ Returned => ret.query = <<>>
                  /\ Reached(i) => (Returned /\ ret.err = NotAvailable(OpOf(f.fields[i])))
        /\ (\A i \in 1..Len(f.fields) : UnknownAt(i) => IsAbsent(f.fields[i]))
              => ret.err.format # "operator %s is not available"

\* the renderer got to a field with a value and an unregistered operator, after
\* having rendered an earlier clause
C3_Witness ==
    /\ CalledOnStruct
    /\ \E i \in 1..Len(f.fields) :
          UnknownAt(i) /\ ~IsAbsent(f.fields[i]) /\ Reached(i) /\ Len(ret.log) >= 1

(***************************************************************************)
(* C4                                                                       *)
(***************************************************************************)
\* the names of the ten built-in operators
BuiltinNames ==
    { NameEq, NameGt, NameGte, NameLt, NameLte, NameIn, NameNotIn, NameBetween,
      NameIsNull, NameNotNull }

\* the options the running/last call works with
EffectiveOpts == ApplyOptFns(DefaultOpts, fns)

\* every tagged field of the record uses a built-in operator and has a column
\* without question mark
OnlyBuiltinsNoQuestion ==
    \A i \in 1..Len(f.fields) :
        f.fields[i].tagged =>
            /\ UsesBuiltin(f.fields[i], BuiltinNames)
            /\ Count(parseTag(f.fields[i].tag).column, "?") = 0

IsDigit(ch) == \E d \in 0..9 : Digit(d) = ch

DigitValue(ch) == CHOOSE d \in 0..9 : Digit(d) = ch

RECURSIVE ReadNumber(_, _, _)
\* the decimal number written in q from position i on, acc being its value so far
ReadNumber(q, i, acc) ==
    IF i <= Len(q) /\ IsDigit(q[i]) THEN ReadNumber(q, i + 1, acc * 10 + DigitValue(q[i]))
    ELSE acc

RECURSIVE NumbersAfter(_, _, _)
\* the numbers that follow the occurrences of ch in q, read left to right from i on
NumbersAfter(q, ch, i) ==
    IF i > Len(q) THEN <<>>
    ELSE IF q[i] = ch /\ i < Len(q) /\ IsDigit(q[i + 1])
         THEN <<ReadNumber(q, i + 1, 0)>> \o NumbersAfter(q, ch, i + 1)
         ELSE NumbersAfter(q, ch, i + 1)

\* the placeholder prefix of a numbered dialect
PrefixOf(strategy) == IF strategy = PlaceholderStrategyColon THEN ":" ELSE "$"

\* the number of placeholders of the fragment in the dialect of the call
PlaceholderCount ==
    IF EffectiveOpts.PlaceholderStrategy = PlaceholderStrategyQuestionmark
    THEN Count(ret.query, "?")
    ELSE Count(ret.query, PrefixOf(EffectiveOpts.PlaceholderStrategy))

\* C4: for a record that uses only built-in operators and whose columns hold no '?',
\* in each of the three dialects, a successful ToSQL returns a fragment with as many
\* placeholders as arguments, the arguments being the concatenation in declaration
\* order of the rendered clauses' arguments; with the colon or dollar dialect and
\* start index s the placeholders read s, s+1, ..., s+len(args)-1 from left to right.
C4_PlaceholdersMatchArgs ==
    (Succeeded /\ f.kind = "struct" /\ OnlyBuiltinsNoQuestion
       /\ EffectiveOpts.PlaceholderStrategy \in
            {PlaceholderStrategyQuestionmark, PlaceholderStrategyColon,
             PlaceholderStrategyDollar}) =>
        /\ PlaceholderCount = Len(ret.args)
        /\ ret.args = Concat([k \in 1..Len(ret.log) |-> ret.log[k].newArgs])
        /\ \A k \in 1..(Len(ret.log) - 1) : ret.log[k].idx < ret.log[k + 1].idx
        /\ EffectiveOpts.PlaceholderStrategy # PlaceholderStrategyQuestionmark =>
              /\ Count(ret.query, "?") = 0
              /\ NumbersAfter(ret.query, PrefixOf(EffectiveOpts.PlaceholderStrategy), 1)
                    = [k \in 1..Len(ret.args) |-> EffectiveOpts.PlaceholderOffset + k - 1]

\* a successful call in the dollar dialect with start index 9 and at least three
\* arguments coming from two rendered clauses
C4_Witness ==
    /\ Succeeded
    /\ f.kind = "struct"
    /\ OnlyBuiltinsNoQuestion
    /\ EffectiveOpts.PlaceholderStrategy = PlaceholderStrategyDollar
    /\ EffectiveOpts.PlaceholderOffset = 9
    /\ Len(ret.log) = 2
    /\ Len(ret.args) >= 3

(***************************************************************************)
(* C5                                                                       *)
(***************************************************************************)
SimpleNames == { NameEq, NameGt, NameGte, NameLt, NameLte }

\* the SQL symbol of a simple operator
SymbolOf(name) ==
    CASE name = NameEq  -> <<"=">>
      [] name = NameGt  -> <<">">>
      [] name = NameGte -> <<">", "=">>
      [] name = NameLt  -> <<"<">>
      [] name = NameLte -> <<"<", "=">>

\* the value a scalar is expected to be extracted to: the pointer removed, signed
\* integers as int64, unsigned as uint64, floats as float64; Nil for anything else
Widened(v) ==
    LET d == IF v.kind = "ptr" THEN Elem(v) ELSE v IN
    CASE d.kind \in SignedKinds   -> AnyVal("int64", d.n, <<>>, FALSE, <<>>)
      [] d.kind \in UnsignedKinds -> AnyVal("uint64", d.n, <<>>, FALSE, <<>>)
      [] d.kind \in FloatKinds    -> AnyVal("float64", d.n, <<>>, FALSE, <<>>)
      [] d.kind = "string"        -> AnyVal("string", 0, d.s, FALSE, <<>>)
      [] d.kind = "bool"          -> AnyVal("bool", 0, <<>>, d.b, <<>>)
      [] d.kind = "struct" /\ d.type = TimeType
                                  -> AnyVal("time.Time", d.n, <<>>, FALSE, <<>>)
      [] OTHER                    -> Nil

\* the column a tagged field's tag gives
ColOf(field) == parseTag(field.tag).column

SeqOf(field) ==
    LET d == derefIfApplicable(field.value) IN
    IF d.kind \in {"slice", "array"} THEN d ELSE Invalid

\* the field holds a sequence
HoldsSeq(field) == SeqOf(field).kind # "invalid"

\* every element of the sequence can be extracted
Extractable(v) == \A k \in 1..Len(v.elems) : readValue(v.elems[k]).err = NoErr

\* the SQL keyword of in and not-in
KeywordOf(name) == IF name = NameIn THEN <<"I", "N">> ELSE <<"N", "O", "T", " ", "I", "N">>

C7_EmptySequence ==
    Built =>
        \A i \in 1..Len(f.fields) :
            LET field == f.fields[i] IN
            (UsesBuiltin(field, {NameIn, NameNotIn}) /\ HoldsSeq(field)
               /\ Len(SeqOf(field).elems) = 0 /\ Reached(i)) =>
                /\ i \in LogIdx
                /\ LogOf(i).seg = ColOf(field) \o <<" ">> \o KeywordOf(OpOf(field))
                                     \o <<"(", "N", "U", "L", "L", ")">>
                /\ LogOf(i).newArgs = <<>>
                /\ Len(f.fields) = 1 =>
                      (Succeeded /\ ret.query = LogOf(i).seg /\ ret.args = <<>>)

\* an in clause over a pointer to an empty slice was rendered
C7_Witness ==
    /\ Succeeded
    /\ Built
    /\ \E i \in 1..Len(f.fields) :
          /\ UsesBuiltin(f.fields[i], {NameIn})
          /\ f.fields[i].value.kind = "ptr"
          /\ HoldsSeq(f.fields[i])
          /\ Len(SeqOf(f.fields[i]).elems) = 0
          /\ i \in LogIdx

(***************************************************************************)
(* C8                                                                       *)
(***************************************************************************)
BetweenText == <<"B", "E", "T", "W", "E", "E", "N", " ", "?", " ", "A", "N", "D", " ", "?">>

\* C8 as stated: for between on a sequence field with at least two elements (the
\* first two of which can be extracted), when the renderer gets to it the rendered
\* clause is "<column> BETWEEN ? AND ?" and contributes exactly the first and the
\* second element, in that order; elements beyond the second are ignored without an
\* error.
C8_AsStated ==
    Built =>
        \A i \in 1..Len(f.fields) :
            LET field == f.fields[i]
                v == SeqOf(field)
            IN  (UsesBuiltin(field, {NameBetween}) /\ HoldsSeq(field) /\ Len(v.elems) >= 2
                   /\ readValue(v.elems[1]).err = NoErr /\ readValue(v.elems[2]).err = NoErr
                   /\ Reached(i)) =>
                    /\ i \in LogIdx
                    /\ LogOf(i).seg = ColOf(field) \o <<" ">> \o BetweenText
                    /\ LogOf(i).newArgs = <<Widened(v.elems[1]), Widened(v.elems[2])>>

(***************************************************************************)
(* C9                                                                       *)
(***************************************************************************)
\* the error of between on a sequence of fewer than two elements
ArityError == Errorf("operation between expects two elements in its slice", <<>>)

\* C9: for between on a sequence field with zero or one element, the call does not
\* succeed, and when the renderer gets to that field ToSQL returns the arity error
\* ("between expects two elements"), an empty fragment and no arguments, and it does
\* not abort.
C9_BetweenArity ==
    Built =>
        \A i \in 1..Len(f.fields) :
            LET field == f.fields[i] IN
            (UsesBuiltin(field, {NameBetween}) /\ HoldsSeq(field)
               /\ Len(SeqOf(field).elems) < 2) =>
                /\ ~Succeeded
                /\ Reached(i) =>
                      /\ Returned
                      /\ ret.err = ArityError
                      /\ ret.query = <<>>
                      /\ ret.args = <<>>

\* the renderer got to a between over a one-element sequence after having rendered
\* another clause
C9_Witness ==
    /\ Failed
    /\ Built
    /\ Len(ret.log) >= 1
    /\ \E i \in 1..Len(f.fields) :
          /\ UsesBuiltin(f.fields[i], {NameBetween})
          /\ HoldsSeq(f.fields[i])
          /\ Len(SeqOf(f.fields[i]).elems) = 1
          /\ Reached(i)

(***************************************************************************)
(* C10                                                                      *)
(***************************************************************************)
\* the field holds a bool, directly or behind a non-nil pointer
HoldsBool(field) == derefIfApplicable(field.value).kind = "bool"

\* the bool the field holds
BoolOf(field) == derefIfApplicable(field.value).b

\* C10: is-null on a boolean field renders "<column> IS NULL" for true and
\* "<column> IS NOT NULL" for false, not-null the inverse; both contribute zero
\* arguments; the clause is rendered whenever the renderer gets to it, and with a
\* nil pointer as value the clause is skipped (alone in its record it gives the
\* empty fragment, no arguments and no error).
C10_NullOperators ==
    Built =>
        \A i \in 1..Len(f.fields) :
            LET field == f.fields[i] IN
            UsesBuiltin(field, {NameIsNull, NameNotNull}) =>
                /\ (HoldsBool(field) /\ Reached(i)) => i \in LogIdx
                /\ (HoldsBool(field) /\ i \in LogIdx) =>
                      /\ LogOf(i).newArgs = <<>>
                      /\ LogOf(i).seg = ColOf(field) \o <<" ">> \o
                            (IF BoolOf(field) = (OpOf(field) = NameIsNull)
                             THEN IsNullText ELSE IsNotNullText)
                /\ IsAbsent(field) =>
                      /\ i \notin LogIdx
                      /\ Len(f.fields) = 1 =>
                            (Succeeded /\ ret.query = <<>> /\ ret.args = <<>>)

\* a call rendered not-null on a pointer to false as IS NULL
C10_Witness ==
    /\ Succeeded
    /\ Built
    /\ \E i \in 1..Len(f.fields) :
          /\ UsesBuiltin(f.fields[i], {NameNotNull})
          /\ f.fields[i].value = PtrTo(BoolV(FALSE))
          /\ i \in LogIdx
          /\ LogOf(i).seg = <<"d", " ">> \o IsNullText

(***************************************************************************)
(* C11                                                                      *)
(***************************************************************************)
SeqNames == { NameIn, NameNotIn, NameBetween }

\* the lists of kinds AssertTypeOneOf is tried with
KindLists ==
    { <<"int">>, <<"string">>, <<"string", "bool">>, <<"bool", "string">>,
      <<"string", "bool", "slice">>, <<"slice", "array">> }

\* the type-mismatch error of a sequence operator for a value of the given kind
TypeMismatch(kind, name) ==
    Errorf("expected %s; got %s for operation %s",
           << <<"s", "l", "i", "c", "e", " ", "o", "r", " ", "a", "r", "r", "a", "y">>,
              KindName(kind), name >>)

\* C11: in, not-in and between on a field with a present value whose dereferenced kind
\* is neither slice nor array fail, when the renderer gets to the field, with the error
\* "expected slice or array; got <kind> for operation <name>" (for between too: the
\* kind check comes before the arity check); AssertTypeOneOf returns nil exactly when
\* the clause's kind is one of the listed kinds.
C11_TypeMismatch ==
    Built =>
        \A i \in 1..Len(f.fields) :
            LET field == f.fields[i] IN
            /\ (UsesBuiltin(field, SeqNames) /\ ~IsAbsent(field) /\ ~HoldsSeq(field)
                  /\ Reached(i)) =>
                    /\ Returned
                    /\ ret.query = <<>>
                    /\ ret.args = <<>>
                    /\ ret.err = TypeMismatch(derefIfApplicable(field.value).kind, OpOf(field))
            /\ \A kinds \in KindLists :
                  (AssertTypeOneOf(ret.clauses[i], kinds) = NoErr)
                     <=> (\E k \in 1..Len(kinds) : kinds[k] = ret.clauses[i].reflectedValue.kind)

\* the renderer got to a between on a pointer to a string
C11_Witness ==
    /\ Failed
    /\ Built
    /\ \E i \in 1..Len(f.fields) :
          /\ UsesBuiltin(f.fields[i], {NameBetween})
          /\ f.fields[i].value.kind = "ptr"
          /\ derefIfApplicable(f.fields[i].value).kind \in {"string", "float32", "int8"}
          /\ Reached(i)
          /\ ret.err.format = "expected %s; got %s for operation %s"

(***************************************************************************)
(* C12                                                                      *)
(***************************************************************************)
\* replace was called directly
ReplaceCalled == call.name = "replace"

\* the text the i-th character of q is expected to become: the n-th '?' becomes the
\* prefix followed by s+n-1, any other character stays
ExpectedAt(q, i, s, prefix) ==
    IF q[i] = "?"
    THEN <<prefix>> \o Itoa(s + Count(SubSeq(q, 1, i), "?") - 1)
    ELSE <<q[i]>>

\* C12: placeholder rewriting is a positional substitution: for every string with m
\* occurrences of '?' and every start index s, the n-th occurrence becomes ":<s+n-1>"
\* (colon) or "$<s+n-1>" (dollar) and every other character stays in place, so the
\* output holds no '?' and exactly m numbered placeholders; with the anonymous
\* dialect the output equals the input for every start index.
C12_PositionalSubstitution ==
    ReplaceCalled =>
        /\ ~call.panicked
        /\ call.fn = defaultReplacer => call.out = call.q
        /\ call.fn # defaultReplacer =>
              LET prefix == call.fn.prefix[1] IN
              /\ call.out = Concat([i \in 1..Len(call.q) |->
                                       ExpectedAt(call.q, i, call.n, prefix)])
              /\ Count(call.out, "?") = 0
              /\ Count(call.out, prefix) = Count(call.q, "?")

\* the dollar dialect rewrote a string with three '?' and other characters from 9 on
C12_Witness ==
    /\ ReplaceCalled
    /\ call.fn = dollarReplacer
    /\ call.n = 9
    /\ Count(call.q, "?") = 3
    /\ call.q[1] = "1"
    /\ call.out = <<"1", "$", "9", "$", "1", "0", "$", "1", "1">>

(***************************************************************************)
(* C13                                                                      *)
(***************************************************************************)
\* the joiner of the call: the connective between two spaces
Joiner == <<" ">> \o EffectiveOpts.ChainingStrategy \o <<" ">>

\* the number of places where sub occurs in s
CountSub(s, sub) ==
    Cardinality({ i \in 1..(Len(s) - Len(sub) + 1) : SubSeq(s, i, i + Len(sub) - 1) = sub })

\* the positions of the tagged fields that hold a value
PresentIdx == { i \in 1..Len(f.fields) : f.fields[i].tagged /\ ~IsAbsent(f.fields[i]) }

\* the segments rendered, in the order they were rendered
Segs == [k \in 1..Len(ret.log) |-> ret.log[k].seg]

KnownNames == DOMAIN init \cup DOMAIN registered

\* the operator a name is expected to stand for: the one registered last under it,
\* or the built-in one
ExpectedOperator(name) == IF name \in DOMAIN registered THEN registered[name] ELSE init[name]

\* C14: after any sequence of RegisterOperator calls, the registry holds for every name
\* the operator registered last under it (or the built-in one), every other name is
\* as it was, no name that was available is missing, and a ToSQL call made afterwards
\* renders (or fails or aborts) each clause it gets to as that operator does.
C14_LastWriteWins ==
    /\ DOMAIN init \subseteq DOMAIN Operators
    /\ DOMAIN Operators = KnownNames
    /\ \A name \in DOMAIN Operators : Operators[name] = ExpectedOperator(name)
    /\ Built =>
          \A i \in 1..Len(f.fields) :
              (f.fields[i].tagged /\ ~IsAbsent(f.fields[i]) /\ Reached(i)
                 /\ OpOf(f.fields[i]) \in KnownNames) =>
                  LET r == CallOperator(ExpectedOperator(OpOf(f.fields[i])), ret.clauses[i]) IN
                  IF r.panicked THEN ret.status = "panicked"
                  ELSE IF r.err # NoErr THEN Returned /\ ret.err = r.err
                  ELSE /\ i \in LogIdx
                       /\ LogOf(i).seg = ColOf(f.fields[i]) \o <<" ">> \o r.sql
                       /\ LogOf(i).newArgs = r.args

\* after eq was registered anew, a call rendered an eq field with the new operator,
\* next to a field whose operator is still the built-in one
C14_Witness ==
    /\ Succeeded
    /\ Built
    /\ NameEq \in DOMAIN registered
    /\ NameMyOp \in DOMAIN registered
    /\ Operators[NameEq] = SimpleOperator(<<"L", "I", "K", "E", " ", "?">>)
    /\ Operators[NameMyOp] = SimpleOperator(<<"L", "I", "K", "E", " ", "?">>)
    /\ \E i, j \in 1..Len(f.fields) :
          /\ OpOf(f.fields[i]) = NameEq
          /\ i \in LogIdx
          /\ LogOf(i).seg = ColOf(f.fields[i]) \o <<" ", "L", "I", "K", "E", " ", "?">>
          /\ UsesBuiltin(f.fields[j], {NameGt})
          /\ j \in LogIdx

(***************************************************************************)
(* C15                                                                      *)
(***************************************************************************)
\* C15 as stated: every failure of a ToSQL call is reported as the returned error and
\* never as an abort: for every supplied value (the untyped nil included), every tag,
\* every field type and every built-in operator applied to it (is-null and not-null on
\* a field that is not boolean included), ToSQL returns.
C15_AsStated == ret.status # "idle" => Returned

(***************************************************************************)
(* C16                                                                      *)
(***************************************************************************)
\* the tag has no comma, or the text between its first comma and the following '='
\* is the key op
WellFormedTag(tag) ==
    LET c1 == Cut(tag, ",")
        c2 == Cut(c1.after, "=")
    IN  ~c1.found \/ (c2.found /\ TrimSpace(c2.before) = <<"o", "p">>)

\* buildClauses gets past the field: it is untagged, or tag and value are accepted
FieldBuilds(field) ==
    ~field.tagged \/ (parseTag(field.tag).err = NoErr /\ readValue(field.value).err = NoErr)

\* the error of parseTag for a tag
MalformedTagError(tag) == Errorf("incorrectly formatted tag: %s", <<tag>>)

\* C16 as stated: a tag without a comma yields (whole tag, eq); a tag
\* "<column>,op=<name>" yields the column verbatim and the trimmed name; and every tag
\* with a comma whose remainder is not a well-formed "op=<name>" segment (no '=' at
\* all, or a key other than op before the '=') makes ToSQL fail with the malformed-tag
\* error holding the raw tag, whether or not the field's value is set (stated for the
\* first field that does not build).
C16_AsStated ==
    CalledOnStruct =>
        \A i \in 1..Len(f.fields) :
            LET tag == f.fields[i].tag
                c1 == Cut(tag, ",")
            IN  f.fields[i].tagged =>
                    /\ ~c1.found =>
                          (parseTag(tag).column = tag /\ parseTag(tag).operator = NameEq
                             /\ parseTag(tag).err = NoErr)
                    /\ (c1.found /\ WellFormedTag(tag)) =>
                          /\ parseTag(tag).column = c1.before
                          /\ parseTag(tag).operator = TrimSpace(Cut(c1.after, "=").after)
                          /\ parseTag(tag).err = NoErr
                    /\ (~WellFormedTag(tag) /\ \A j \in 1..(i - 1) : FieldBuilds(f.fields[j])) =>
                          /\ Returned
                          /\ ret.query = <<>>
                          /\ ret.args = <<>>
                          /\ ret.err = MalformedTagError(tag)

(***************************************************************************)
(* C17                                                                      *)
(***************************************************************************)
\* the input-shape error of buildClauses
NotAStruct == Errorf("unable to build filter: provided value is not a struct", <<>>)

\* C17 as stated: ToSQL called with a value that is not a struct (a scalar, a slice, a
\* map, a pointer to a struct, nil) fails with the "not a struct" error, an empty
\* fragment and no arguments, before any field is inspected and whatever the options.
C17_AsStated ==
    (ret.status # "idle" /\ f.kind # "struct") =>
        /\ Returned
        /\ ret.err = NotAStruct
        /\ ret.query = <<>>
        /\ ret.args = <<>>
        /\ ret.clauses = <<>>

(***************************************************************************)
(* C18                                                                      *)
(***************************************************************************)
\* the dereferenced kind of the value is outside the supported set
Unsupported(v) ==
    LET d == derefIfApplicable(v) IN
    /\ d.kind # "invalid"
    /\ d.kind \notin SignedKinds \cup UnsignedKinds \cup FloatKinds
                       \cup {"string", "bool", "slice", "array"}
    /\ ~(d.kind = "struct" /\ d.type = TimeType)

\* the error readValue gives for a value of an unsupported kind
UnsupportedError(v) ==
    LET d == derefIfApplicable(v) IN
    IF d.kind = "struct" THEN Errorf("structs are not supported, only time.Time", <<>>)
    ELSE Errorf("unsupported type: %v", <<KindName(d.kind)>>)

\* the fields without the untagged ones
WithoutUntagged(fields) == SelectSeq(fields, LAMBDA field : field.tagged)

C19_AsStated ==
    call.name = "PlaceholderList" =>
        /\ ~call.panicked
        /\ call.n >= 1 =>
              /\ Len(call.out) = 2 * call.n - 1
              /\ \A i \in 1..Len(call.out) : call.out[i] = (IF i % 2 = 1 THEN "?" ELSE ",")
        /\ call.n = 0 => call.out = <<"?">>

(***************************************************************************)
(* C20                                                                      *)
(***************************************************************************)
\* what summarize is expected to give for a list of labels
ExpectedSummary(items) ==
    LET k == Len(items) IN
    IF k = 0 THEN <<>>
    ELSE IF k = 1 THEN items[1]
    ELSE Join(SubSeq(items, 1, k - 1), <<",", " ">>) \o <<" ", "o", "r", " ">> \o items[k]

\* C20: summarize gives the empty string for no label, the label itself for one,
\* "a or b" for two, and for k >= 3 the first k-1 labels joined by ", ", then " or "
\* and the last label (no comma before "or"), in the order given.
C20_Summarize ==
    call.name = "summarize" =>
        /\ ~call.panicked
        /\ call.out = ExpectedSummary(call.items)
        /\ Len(call.items) = 2 =>
              call.out = call.items[1] \o <<" ", "o", "r", " ">> \o call.items[2]

\* summarize was called with four labels
C20_Witness ==
    /\ call.name = "summarize"
    /\ call.items = << <<"a">>, <<"b", "c">>, <<"o", "r">>, <<"a">> >>
    /\ call.out = <<"a", ",", " ", "b", "c", ",", " ", "o", "r", " ", "o", "r", " ", "a">>

(***************************************************************************)
(* C21                                                                      *)
(***************************************************************************)
\* the error buildClauses has for a field taken alone: that of its tag, else that of
\* its value
BuildErr(field) ==
    IF ~field.tagged THEN NoErr
    ELSE IF parseTag(field.tag).err # NoErr THEN parseTag(field.tag).err
    ELSE readValue(field.value).err

\* the clause of a field that builds
ClauseOf(field) ==
    Clause(ColOf(field), OpOf(field), readValue(field.value).val,
           derefIfApplicable(field.value))

\* the field builds and its clause is not skipped
Renders(field) == field.tagged /\ BuildErr(field) = NoErr /\ ClauseOf(field).Val # Nil

\* rendering the field's clause aborts
RenderPanics(field) ==
    /\ Renders(field)
    /\ OpOf(field) \in DOMAIN Operators
    /\ CallOperator(Operators[OpOf(field)], ClauseOf(field)).panicked

\* the error rendering the field's clause gives: that of the lookup, else that of
\* the operator
RenderErr(field) ==
    IF ~Renders(field) \/ RenderPanics(field) THEN NoErr
    ELSE IF OpOf(field) \notin DOMAIN Operators THEN NotAvailable(OpOf(field))
    ELSE CallOperator(Operators[OpOf(field)], ClauseOf(field)).err

\* the error the field causes, in whichever stage
FieldErr(field) == IF BuildErr(field) # NoErr THEN BuildErr(field) ELSE RenderErr(field)

\* the least position of a set of positions
First(S) == CHOOSE i \in S : \A j \in S : i <= j

\* the positions of the fields that fail while clauses are built, resp. rendered
BuildFailures == { i \in 1..Len(f.fields) : BuildErr(f.fields[i]) # NoErr }
RenderFailures ==
    { i \in 1..Len(f.fields) : RenderErr(f.fields[i]) # NoErr \/ RenderPanics(f.fields[i]) }

\* C21 as stated: when several tagged fields of one record would each cause an error,
\* the error ToSQL returns is that of the first failing field in declaration order,
\* whichever stage that field fails in (tag parsing, value extraction, operator lookup
\* or operator execution); a later field's failure never replaces an earlier one's.
C21_AsStated ==
    (CalledOnStruct /\ \A i \in 1..Len(f.fields) : ~RenderPanics(f.fields[i])) =>
        LET failing == { i \in 1..Len(f.fields) : FieldErr(f.fields[i]) # NoErr } IN
        failing # {} => (Returned /\ ret.err = FieldErr(f.fields[First(failing)]))

\* C21 amended: ToSQL returns the first error met in the order the code works in: all
\* fields are built (tag, then value) before any is rendered, so the error is that of
\* the first field in declaration order that fails in tag parsing or value extraction
\* if there is one, and otherwise the outcome is that of the first field in
\* declaration order that fails in operator lookup or execution; within a stage a
\* later field's failure never replaces an earlier one's.
C21_FirstErrorPerStage ==
    CalledOnStruct =>
        IF BuildFailures # {}
        THEN Returned /\ ret.err = BuildErr(f.fields[First(BuildFailures)])
        ELSE IF RenderFailures # {}
        THEN IF RenderPanics(f.fields[First(RenderFailures)])
             THEN ret.status = "panicked"
             ELSE Returned /\ ret.err = RenderErr(f.fields[First(RenderFailures)])
        ELSE Succeeded

\* a call on a record whose first field fails in the operator lookup and whose second
\* field fails in its tag returned the error of the tag
C21_Witness ==
    /\ Failed
    /\ CalledOnStruct
    /\ Len(f.fields) = 2
    /\ BuildErr(f.fields[1]) = NoErr
    /\ RenderErr(f.fields[1]) = NotAvailable(OpOf(f.fields[1]))
    /\ BuildErr(f.fields[2]) = MalformedTagError(f.fields[2].tag)
    /\ ret.err = MalformedTagError(f.fields[2].tag)

(***************************************************************************)
(* C22                                                                      *)
(***************************************************************************)
\* the position of the last function of fs that sets the given option; 0 if none does
LastOf(fs, opt) ==
    LET S == { k \in 1..Len(fs) : fs[k].opt = opt } IN
    IF S = {} THEN 0 ELSE CHOOSE k \in S : \A j \in S : j <= k

\* the configuration a call with the functions fs is expected to work with: for each
\* setting the value of the last function that sets it, else the current default
ExpectedOpts(fs) ==
    LET c == LastOf(fs, "WithChainingStrategy")
        p == LastOf(fs, "WithPlaceholderStrategy")
        n == LastOf(fs, "WithPlaceholderOffset")
    IN  [ChainingStrategy    |-> IF c = 0 THEN DefaultChainingStrategy ELSE fs[c].s,
         PlaceholderStrategy |-> IF p = 0 THEN DefaultPlaceholderStrategy ELSE fs[p].n,
         PlaceholderOffset   |-> IF n = 0 THEN DefaultPlaceholderStategyIndexOffset
                                 ELSE fs[n].n]

\* the result of a call on x that sets each of the three settings once
ResultWith(x, o) ==
    ToSQL(x, <<WithChainingStrategy(o.ChainingStrategy),
               WithPlaceholderStrategy(o.PlaceholderStrategy),
               WithPlaceholderOffset(o.PlaceholderOffset)>>)

\* a step in which ToSQL is called
IsCall == ret' # ret \/ f' # f \/ fns' # fns

\* C22: each ToSQL call works with a configuration built from the defaults current at
\* its start, its option functions applied in the order given (a later one overrides
\* an earlier one for the same setting); the call leaves the defaults and the registry
\* as they are, and its result is that of its own record and options under these
\* defaults and this registry, whatever the options of the call before were.
C22_FreshConfiguration ==
    [][IsCall =>
          /\ DefaultChainingStrategy' = DefaultChainingStrategy
          /\ DefaultPlaceholderStrategy' = DefaultPlaceholderStrategy
          /\ DefaultPlaceholderStategyIndexOffset' = DefaultPlaceholderStategyIndexOffset
          /\ Operators' = Operators
          /\ ret' = ResultWith(f', ExpectedOpts(fns'))
          /\ ret' = ToSQL(f', fns')]_vars

\* under defaults that had been set to OR, dollar and 9, a call whose two options set
\* the strategy differently returned the colon dialect of the later one, from 9 on
C22_Witness ==
    /\ Succeeded
    /\ DefaultChainingStrategy = ChainingStrategyOr
    /\ DefaultPlaceholderStrategy = PlaceholderStrategyDollar
    /\ DefaultPlaceholderStategyIndexOffset = 9
    /\ fns = <<WithPlaceholderStrategy(UndefinedStrategy),
               WithPlaceholderStrategy(PlaceholderStrategyColon)>>
    /\ ret.query = <<"a", " ", ">", " ", ":", "9", " ", "O", "R", " ",
                     "b", " ", "I", "N", "(", ":", "1", "0", ",", ":", "1", "1", ")">>

(***************************************************************************)
(* C25                                                                      *)
(***************************************************************************)
\* the three strategies applyPlaceholders has a case for
DefinedStrategies ==
    {PlaceholderStrategyQuestionmark, PlaceholderStrategyColon, PlaceholderStrategyDollar}

\* the last strategy option of the call names a strategy outside the three constants
UndefinedStrategyGiven ==
    LET p == LastOf(fns, "WithPlaceholderStrategy") IN
    p # 0 /\ fns[p].n \notin DefinedStrategies

RECURSIVE ArgsOfFields(_)
\* the arguments of the clauses of the fields fs that are rendered, in field order
ArgsOfFields(fs) ==
    IF fs = <<>> THEN <<>>
    ELSE (IF Renders(Head(fs))
          THEN CallOperator(Operators[OpOf(Head(fs))], ClauseOf(Head(fs))).args
          ELSE <<>>) \o ArgsOfFields(Tail(fs))

\* every field of the record builds and renders
AllFieldsRender == CalledOnStruct /\ BuildFailures = {} /\ RenderFailures = {}

\* the number of placeholders, of whichever dialect, in a text
PlaceholdersIn(q) ==
    Cardinality({ k \in 1..Len(q) : q[k] \in {"?", "$", ":"} })

\* C25: a ToSQL call whose placeholder strategy is none of the three constants, on a
\* record whose clauses all render, returns the empty fragment, the complete argument
\* list of the rendered clauses and a nil error; when there is an argument, the
\* fragment holds fewer placeholders than there are arguments.
C25_UndefinedStrategy ==
    (AllFieldsRender /\ UndefinedStrategyGiven) =>
        /\ Succeeded
        /\ ret.query = <<>>
        /\ ret.args = ArgsOfFields(f.fields)
        /\ (ret.args # <<>> => PlaceholdersIn(ret.query) < Len(ret.args))

\* a call with the undefined strategy returned three arguments, one of gt and two of
\* in, with an empty fragment and a nil error
C25_Witness ==
    /\ AllFieldsRender
    /\ UndefinedStrategyGiven
    /\ Succeeded
    /\ Len(ret.log) = 2
    /\ Len(ret.args) = 3
    /\ ret.query = <<>>

(***************************************************************************)
(* C24                                                                      *)
(***************************************************************************)
RECURSIVE Vary(_, _)
\* the value v with other contents and the same type: numbers and times moved by d,
\* strings given a quote, booleans inverted, and so for the pointee and the elements;
\* nil pointers stay nil and lengths stay as they are
Vary(v, d) ==
    GoVal(v.kind, v.type,
          IF v.kind \in SignedKinds \cup UnsignedKinds \cup FloatKinds \/ v.type = TimeType
          THEN v.n + d ELSE v.n,
          IF v.kind = "string" /\ d # 0 THEN v.s \o <<"'">> ELSE v.s,
          IF v.kind = "bool" /\ d # 0 THEN ~v.b ELSE v.b,
          [i \in 1..Len(v.elems) |-> Vary(v.elems[i], d)])

\* values of the type of v to compare v with: v with other contents, and the
\* sequences of the same type the model draws from
PeerValues(v) ==
    { Vary(v, d) : d \in 0..1 } \cup { w \in SliceValues : w.type = v.type }

\* v and w, of one type, agree on presence, on the length of the sequence and, under
\* is-null and not-null, on the boolean
SameShape(v, w, op) ==
    LET dv == derefIfApplicable(v)
        dw == derefIfApplicable(w)
    IN  /\ v.kind = w.kind /\ v.type = w.type
        /\ (v.kind = "ptr" => ((v.elems = <<>>) <=> (w.elems = <<>>)))
        /\ (dv.kind \in {"slice", "array"} => Len(dv.elems) = Len(dw.elems))
        /\ ((op \in {NameIsNull, NameNotNull} /\ dv.kind = "bool") => dv.b = dw.b)

\* the elements of the sequences v and w agree on presence, one by one
ElementsAgree(v, w) ==
    LET dv == derefIfApplicable(v)
        dw == derefIfApplicable(w)
    IN  dv.kind \in {"slice", "array"} =>
            \A i \in 1..Len(dv.elems) :
                dv.elems[i].kind = "ptr" =>
                    ((dv.elems[i].elems = <<>>) <=> (dw.elems[i].elems = <<>>))

\* the fields of the same declaration as field whose value has the same shape
PeerFields(field) ==
    { Field(field.tagged, field.tag, w) :
        w \in { w \in PeerValues(field.value) : SameShape(field.value, w, OpOf(field)) } }

RECURSIVE PeerFieldLists(_)
\* the field lists of the records of the same struct type and the same shape
PeerFieldLists(fields) ==
    IF fields = <<>> THEN { <<>> }
    ELSE { <<h>> \o t : h \in PeerFields(Head(fields)), t \in PeerFieldLists(Tail(fields)) }

\* the records of the same struct type as x that agree with x on the shape
Peers(x) == { StructOf(fs) : fs \in PeerFieldLists(x.fields) }

\* the peers of x whose sequences also agree with those of x on which elements are nil
StrictPeers(x) ==
    { g \in Peers(x) :
        \A i \in 1..Len(x.fields) : ElementsAgree(x.fields[i].value, g.fields[i].value) }

\* only the built-in operators are registered
OnlyBuiltins == Operators = init

\* C24 as stated: with only built-in operators registered, two records of the same
\* struct type whose tagged fields agree on presence, on sequence lengths and on the
\* booleans given to is-null/not-null yield the same fragment under the same options,
\* whatever their scalar values and sequence elements are.
C24_AsStated ==
    (OnlyBuiltins /\ CalledOnStruct /\ Returned) =>
        \A g \in Peers(f) : ToSQL(g, fns).query = ret.query

\* C24 amended: with only built-in operators registered, two records of the same
\* struct type that agree on presence (of the fields and of the elements of their
\* sequences), on sequence lengths and on the booleans given to is-null/not-null
\* yield the same outcome, the same fragment and equally many arguments under the
\* same options, whatever their scalar values and the values of their elements are.
C24_NoValueInFragment ==
    (OnlyBuiltins /\ CalledOnStruct) =>
        \A g \in StrictPeers(f) :
            LET r == ToSQL(g, fns) IN
            /\ r.status = ret.status
            /\ r.query = ret.query
            /\ Len(r.args) = Len(ret.args)

\* a call on a record with a string under eq returned a fragment without the string,
\* and the record whose string has a quote added is among those compared with
C24_Witness ==
    /\ OnlyBuiltins
    /\ Succeeded
    /\ Len(f.fields) = 1
    /\ f.fields[1].value = StringV(<<"x">>)
    /\ ret.query = <<"a", " ", "=", " ", "?">>
    /\ StructOf(<<Field(TRUE, <<"a">>, StringV(<<"x", "'">>))>>) \in StrictPeers(f)
    /\ ToSQL(StructOf(<<Field(TRUE, <<"a">>, StringV(<<"x", "'">>))>>), fns).args
           # ret.args

(***************************************************************************)
(* C23                                                                      *)
(***************************************************************************)
\* the running call is about to look the operator of the clause at pos up
AtLookup ==
    /\ ret.status = "running"
    /\ pos \in 1..Len(ret.clauses)
    /\ ~SkipClause(ret.clauses[pos])

\* the step is that lookup and what follows it in the iteration
LookupStep == AtLookup /\ (pos' # pos \/ ret' # ret)

\* the iteration ended as the operator held by the given map under the clause's name
\* makes it end
RenderedBy(registry) ==
    LET c == ret.clauses[pos] IN
    IF c.Op \notin DOMAIN registry
    THEN ret'.status = "returned" /\ ret'.err = NotAvailable(c.Op)
    ELSE LET r == CallOperator(registry[c.Op], c) IN
         IF r.panicked THEN ret'.status = "panicked"
         ELSE IF r.err # NoErr THEN ret'.status = "returned" /\ ret'.err = r.err
         ELSE /\ ret'.status = "running"
              /\ ret'.log = Append(ret.log, Rendered(pos, c.Col \o <<" ">> \o r.sql, r.args))

\* C23: the call looks the operator up once per clause, in the registry as it is at
\* that moment and not as it was when the call started: a lookup outside a write
\* renders the clause by the operator the registry holds then; a lookup that overlaps
\* a write (nothing keeps the two apart) is recorded as overlapping and sees the
\* registry before or after that write, or stops the process.
C23_NoSnapshot ==
    [][LookupStep =>
          IF writer.status = "writing"
          THEN /\ pos \in overlapped'
               /\ \/ ret'.status = "panicked"
                  \/ RenderedBy(Operators)
                  \/ RenderedBy(MapPut(Operators, writer.name, writer.op))
          ELSE overlapped' = overlapped /\ RenderedBy(Operators)]_vars

\* a call on three fields under eq returned: the first clause was rendered by the
\* operator registered when the call started, the second, whose lookup overlapped no
\* write, by the operator registered in between, and the lookup of the third
\* overlapped a write
C23_Witness ==
    /\ Succeeded
    /\ Len(f.fields) = 3
    /\ \A i \in 1..3 : OpOf(f.fields[i]) = NameEq
    /\ started[NameEq] = SimpleOperator(<<"=", " ", "?">>)
    /\ Len(ret.log) = 3
    /\ ret.log[1].seg = <<"a", " ", "=", " ", "?">>
    /\ ret.log[2].seg = <<"b", " ", "L", "I", "K", "E", " ", "?">>
    /\ overlapped = {3}
    /\ ret.query = <<"a", " ", "=", " ", "?", " ", "A", "N", "D", " ",
                     "b", " ", "L", "I", "K", "E", " ", "?", " ", "A", "N", "D", " ",
                     "c", " ", "L", "I", "K", "E", " ", "?">>

====
